---- MODULE Spec2Model ----
(***************************************************************************)
(* casesmith: per-function control-flow graphs of TypeScript sources, the  *)
(* worker-per-file harness that collects them, and the repository-level    *)
(* security-flow aggregate.  Strings are sequences of one-character        *)
(* strings, so that prefix, substring and case conversions are computed.   *)
(***************************************************************************)
EXTENDS Integers, Sequences, FiniteSets, TLC

(* ------------------------------ strings ------------------------------ *)

UpperChars == <<"A","B","C","D","E","F","G","H","I","J","K","L","M","N","O","P","Q","R","S","T","U","V","W","X","Y","Z">>

LowerChars == <<"a","b","c","d","e","f","g","h","i","j","k","l","m","n","o","p","q","r","s","t","u","v","w","x","y","z">>

\* char::to_lowercase on the ASCII range
LowerChar(c) ==
    IF \E k \in 1..Len(UpperChars) : UpperChars[k] = c
    THEN LowerChars[CHOOSE k \in 1..Len(UpperChars) : UpperChars[k] = c]
    ELSE c

\* str::to_lowercase
to_lowercase(s) == [i \in 1..Len(s) |-> LowerChar(s[i])]

\* str::starts_with
starts_with(s, p) == Len(s) >= Len(p) /\ SubSeq(s, 1, Len(p)) = p

\* str::contains
contains(s, p) == \E i \in 0..(Len(s) - Len(p)) : SubSeq(s, i + 1, i + Len(p)) = p

IsSpace(c) == c \in {" ", "\t", "\n", "\r"}

\* str::lines().next().unwrap_or(""): the text before the first line break
first_line(s) ==
    IF \E i \in 1..Len(s) : s[i] = "\n"
    THEN LET i == CHOOSE j \in 1..Len(s) : s[j] = "\n" /\ \A k \in 1..(j - 1) : s[k] # "\n"
             l == SubSeq(s, 1, i - 1)
         IN  IF Len(l) > 0 /\ l[Len(l)] = "\r" THEN SubSeq(l, 1, Len(l) - 1) ELSE l
    ELSE s

\* str::trim
trim(s) ==
    IF \A i \in 1..Len(s) : IsSpace(s[i]) THEN <<>>
    ELSE LET a == CHOOSE i \in 1..Len(s) : ~IsSpace(s[i]) /\ \A k \in 1..(i - 1) : IsSpace(s[k])
             b == CHOOSE i \in 1..Len(s) : ~IsSpace(s[i]) /\ \A k \in (i + 1)..Len(s) : IsSpace(s[k])
         IN  SubSeq(s, a, b)

\* Vec<String>::join(".")
RECURSIVE join_dot(_)
join_dot(parts) ==
    IF Len(parts) = 0 THEN <<>>
    ELSE IF Len(parts) = 1 THEN parts[1]
    ELSE parts[1] \o <<".">> \o join_dot(Tail(parts))

(* ------------------------- string literals --------------------------- *)

L_Entry == <<"E","n","t","r","y">>

L_Exit == <<"E","x","i","t">>

L_If == <<"I","f",":"," ">>

L_Loop == <<"L","o","o","p",":"," ">>

L_Return == <<"R","e","t","u","r","n",":"," ">>

L_ColonSp == <<":"," ">>

L_SECRET == <<"S","E","C","R","E","T",":"," ">>

L_AUTH == <<"A","U","T","H",":"," ">>

L_UserEntry == <<"U","S","E","R"," ","E","N","T","R","Y"," ","(","N","e","s","t"," ","r","o","u","t","e",")">>

K_NET == <<"N","E","T",":">>

K_DB == <<"D","B",":">>

K_AUTH == <<"A","U","T","H",":">>

K_CRYPTO == <<"C","R","Y","P","T","O",":">>

K_SECRET == <<"S","E","C","R","E","T",":">>

K_LOG == <<"L","O","G",":">>

K_Loop == <<"L","o","o","p">>

K_Return == <<"R","e","t","u","r","n">>

K_If == <<"I","f">>

K_USER_ENTRY == <<"U","S","E","R"," ","E","N","T","R","Y">>

T_passport == <<"p","a","s","s","p","o","r","t">>

T_password == <<"p","a","s","s","w","o","r","d">>

T_token == <<"t","o","k","e","n">>

T_secret == <<"s","e","c","r","e","t">>

T_useguards == <<"u","s","e","g","u","a","r","d","s">>

T_auth == <<"a","u","t","h">>

RouteDecorators == {<<"@","g","e","t">>, <<"@","p","o","s","t">>, <<"@","p","u","t">>, <<"@","d","e","l","e","t","e">>, <<"@","p","a","t","c","h">>, <<"@","a","l","l">>}

NetStarts == {<<"a","x","i","o","s">>, <<"f","e","t","c","h">>}

NetContains == {<<"h","t","t","p","s","e","r","v","i","c","e">>, <<"g","o","t",".">>, <<"g","r","p","c",".">>}

DbContains == {<<"p","r","i","s","m","a",".">>, <<"r","e","p","o","s","i","t","o","r","y",".">>, <<"m","a","n","a","g","e","r",".">>, <<"m","o","n","g","o","o","s","e",".">>, <<"m","o","d","e","l",".">>, <<"q","u","e","r","y">>}

AuthContains == {<<"j","w","t">>, <<"a","u","t","h","g","u","a","r","d">>, <<"p","a","s","s","p","o","r","t">>}

CryptoContains == {<<"b","c","r","y","p","t">>, <<"c","r","y","p","t","o",".">>, <<"c","r","e","a","t","e","h","a","s","h">>, <<"c","r","e","a","t","e","h","m","a","c">>, <<"r","a","n","d","o","m","b","y","t","e","s">>, <<"s","i","g","n">>, <<"v","e","r","i","f","y">>}

LogStarts == {<<"c","o","n","s","o","l","e",".">>}

LogContains == {<<"l","o","g","g","e","r",".">>, <<"w","i","n","s","t","o","n">>, <<"p","i","n","o">>}

SecretMarkers == {<<"p","r","o","c","e","s","s",".","e","n","v">>, <<"c","o","n","f","i","g","s","e","r","v","i","c","e",".","g","e","t">>, T_secret, <<"p","r","i","v","a","t","e","k","e","y">>, <<"a","p","i","k","e","y">>, T_token}

SensitiveTerms == {<<"p","i","i">>, <<"s","s","n">>, T_passport, T_password, T_token, T_secret}

(* --------------------------- syntax trees ---------------------------- *)
\* A tree is a sequence of nodes, a node's id is its index, 0 is "no node";
\* text is the source text of the node's byte range, start its first byte.

FieldNames == {"name", "body", "function", "object", "property", "left", "right", "value", "key"}

Nd(kind, text, start, kids, flds) ==
    [kind |-> kind, text |-> text, start |-> start, kids |-> kids,
     fld  |-> [x \in FieldNames |->
                  IF \E p \in flds : p[1] = x THEN (CHOOSE p \in flds : p[1] = x)[2] ELSE 0]]

child_count(t, n) == Len(t[n].kids)

child(t, n, i) == t[n].kids[i]

child_by_field_name(t, n, f) == t[n].fld[f]

(* ------------------------------ tag.rs ------------------------------- *)

EdgeKind == {"Branch", "Loop", "Return", "Net", "Db", "Auth", "Crypto", "Secret", "Log", "Other"}

\* first line of the node's text, trimmed
snippet(t, n) == trim(first_line(t[n].text))

RECURSIVE flatten(_, _)
flatten(t, n) ==
    CASE t[n].kind = "identifier" -> <<snippet(t, n)>>
      [] t[n].kind = "member_expression" ->
            LET obj  == child_by_field_name(t, n, "object")
                prop == child_by_field_name(t, n, "property")
            IN  (IF obj # 0 THEN flatten(t, obj) ELSE <<>>)
                \o (IF prop # 0 THEN <<snippet(t, prop)>> ELSE <<>>)
      [] OTHER -> <<snippet(t, n)>>

\* Option<String>: [some, val]
call_name(t, call) ==
    LET func == child_by_field_name(t, call, "function")
    IN  IF func = 0 THEN [some |-> FALSE, val |-> <<>>]
        ELSE LET parts == flatten(t, func)
             IN  IF parts = <<>> THEN [some |-> FALSE, val |-> <<>>]
                 ELSE [some |-> TRUE, val |-> join_dot(parts)]

\* Option<EdgeKind>: a kind, or "None"
classify_call(t, call) ==
    LET cn   == call_name(t, call)
        name == to_lowercase(IF cn.some THEN cn.val ELSE <<>>)
    IN  IF (\E p \in NetStarts : starts_with(name, p)) \/ (\E p \in NetContains : contains(name, p))
        THEN "Net"
        ELSE IF \E p \in DbContains : contains(name, p) THEN "Db"
        ELSE IF \E p \in AuthContains : contains(name, p) THEN "Auth"
        ELSE IF \E p \in CryptoContains : contains(name, p) THEN "Crypto"
        ELSE IF (\E p \in LogStarts : starts_with(name, p)) \/ (\E p \in LogContains : contains(name, p))
        THEN "Log"
        ELSE "None"

is_secretish(t, n) ==
    LET s == to_lowercase(snippet(t, n))
    IN  \E m \in SecretMarkers : contains(s, m)

(* --------------------------- the CFG builder ------------------------- *)
\* A builder state is [nodes, edges, last]; node indices are 0-based as in
\* the code, so the label of node i is nodes[i + 1].

exit == 1

label_at(nodes, i) == nodes[i + 1]

InitBuilder == [nodes |-> <<L_Entry, L_Exit>>, edges |-> <<>>, last |-> 0]

\* push_tag_node without the repeat guard
push_tag_node_unguarded(b, label) ==
    LET idx == Len(b.nodes)
    IN  [nodes |-> Append(b.nodes, label),
         edges |-> Append(b.edges, <<b.last, idx>>),
         last  |-> idx]

\* avoid pushing identical tag nodes back-to-back
push_tag_node(b, label) ==
    IF b.last < Len(b.nodes) /\ label_at(b.nodes, b.last) = label THEN b
    ELSE LET idx == Len(b.nodes)
         IN  [nodes |-> Append(b.nodes, label),
              edges |-> Append(b.edges, <<b.last, idx>>),
              last  |-> idx]

\* push_step_node taking the index after the push
push_step_node_late_index(b, label) ==
    LET idx == Len(b.nodes) + 1
    IN  [nodes |-> Append(b.nodes, label),
         edges |-> Append(b.edges, <<b.last, idx>>),
         last  |-> idx]

\* if_statement and return_statement: node, edge from last, last advances
push_step_node(b, label) ==
    LET idx == Len(b.nodes)
    IN  [nodes |-> Append(b.nodes, label),
         edges |-> Append(b.edges, <<b.last, idx>>),
         last  |-> idx]

\* push_loop_node without the self-loop edge
push_loop_node_no_self(b, label) ==
    LET idx == Len(b.nodes)
    IN  [nodes |-> Append(b.nodes, label),
         edges |-> b.edges \o << <<b.last, idx>>, <<idx, exit>> >>,
         last  |-> idx]

\* for_statement and while_statement
push_loop_node(b, label) ==
    LET idx == Len(b.nodes)
    IN  [nodes |-> Append(b.nodes, label),
         edges |-> b.edges \o << <<b.last, idx>>, <<idx, idx>>, <<idx, exit>> >>,
         last  |-> idx]

visit_structure(t, b, ch) ==
    LET kind == t[ch].kind
    IN  IF kind = "if_statement" THEN push_step_node(b, L_If \o snippet(t, ch))
        ELSE IF kind = "for_statement" \/ kind = "while_statement"
        THEN push_loop_node(b, L_Loop \o snippet(t, ch))
        ELSE IF kind = "return_statement" THEN push_step_node(b, L_Return \o snippet(t, ch))
        ELSE b

tag_prefix(k) ==
    CASE k = "Net" -> <<"N","E","T">>
      [] k = "Db" -> <<"D","B">>
      [] k = "Auth" -> <<"A","U","T","H">>
      [] k = "Crypto" -> <<"C","R","Y","P","T","O">>
      [] k = "Log" -> <<"L","O","G">>
      [] OTHER -> <<"O","T","H","E","R">>

visit_call(t, b, ch) ==
    IF t[ch].kind = "call_expression" /\ classify_call(t, ch) # "None"
    THEN push_tag_node(b, tag_prefix(classify_call(t, ch)) \o L_ColonSp \o snippet(t, ch))
    ELSE b

visit_secret(t, b, ch) ==
    IF t[ch].kind \in {"member_expression", "call_expression", "identifier"} /\ is_secretish(t, ch)
    THEN push_tag_node(b, L_SECRET \o snippet(t, ch))
    ELSE b

visit_decorator(t, b, ch) ==
    IF t[ch].kind = "decorator"
    THEN LET deco_raw == snippet(t, ch)
             deco     == to_lowercase(deco_raw)
             b1 == IF \E d \in RouteDecorators : starts_with(deco, d)
                   THEN push_tag_node(b, L_UserEntry) ELSE b
         IN  IF contains(deco, T_useguards) \/ contains(deco, T_auth)
             THEN push_tag_node(b1, L_AUTH \o deco_raw) ELSE b1
    ELSE b

\* the body of the for loop over the children of a popped node: its four
\* parts in turn (x \in {e} names the value of e)
visit_child(t, b, ch) ==
    CHOOSE r \in {visit_decorator(t, b3, ch) :
                     b3 \in {visit_secret(t, b2, ch) :
                               b2 \in {visit_call(t, b1, ch) :
                                         b1 \in {visit_structure(t, b, ch)}}}} : TRUE

RECURSIVE walk_children(_, _, _, _, _)
walk_children(t, n, i, stack, b) ==
    IF i > child_count(t, n) THEN [stack |-> stack, b |-> b]
    ELSE CHOOSE r \in {walk_children(t, n, i + 1, st, nb) :
                          st \in {Append(stack, child(t, n, i))},
                          nb \in {visit_child(t, b, child(t, n, i))}} : TRUE

\* a traversal that takes the oldest node of the stack, not the newest
RECURSIVE walk_oldest_first(_, _, _)
walk_oldest_first(t, stack, b) ==
    IF stack = <<>> THEN b
    ELSE CHOOSE w \in {walk_oldest_first(t, r.stack, r.b) :
                          r \in {walk_children(t, stack[1], 1, Tail(stack), b)}} : TRUE

\* while let Some(n) = stack.pop() { for i in 0..n.child_count() { ... } }
RECURSIVE walk(_, _, _)
walk(t, stack, b) ==
    IF stack = <<>> THEN b
    ELSE CHOOSE w \in {walk(t, r.stack, r.b) :
                          r \in {walk_children(t, stack[Len(stack)], 1,
                                                SubSeq(stack, 1, Len(stack) - 1), b)}} : TRUE

\* a closing edge that leaves Entry whatever was appended
finish_cfg_from_entry(b) == [nodes |-> b.nodes, edges |-> Append(b.edges, <<0, exit>>)]

\* edges.push((last, exit)); SimpleCfg { nodes, edges }
finish_cfg(b) == [nodes |-> b.nodes, edges |-> Append(b.edges, <<b.last, exit>>)]

build_structured_cfg(t, body) ==
    CHOOSE c \in {finish_cfg(w) : w \in {walk(t, <<body>>, InitBuilder)}} : TRUE

\* Vec::retain(|e| seen.insert(*e)): keep the first occurrence of each pair
RECURSIVE retain_unseen(_, _, _)
retain_unseen(es, seen, out) ==
    IF es = <<>> THEN out
    ELSE IF Head(es) \in seen THEN retain_unseen(Tail(es), seen, out)
    ELSE retain_unseen(Tail(es), seen \cup {Head(es)}, Append(out, Head(es)))

\* de-duplication keyed on the destination index alone
RECURSIVE retain_unseen_dst(_, _, _)
retain_unseen_dst(es, seen, out) ==
    IF es = <<>> THEN out
    ELSE IF Head(es)[2] \in seen THEN retain_unseen_dst(Tail(es), seen, out)
    ELSE retain_unseen_dst(Tail(es), seen \cup {Head(es)[2]}, Append(out, Head(es)))

dedupe_by_destination(cfg) ==
    CHOOSE r \in {[nodes |-> c.nodes, edges |-> retain_unseen_dst(c.edges, {}, <<>>)] : c \in {cfg}} : TRUE

dedupe_cfg_edges(cfg) ==
    CHOOSE r \in {[nodes |-> c.nodes, edges |-> retain_unseen(c.edges, {}, <<>>)] : c \in {cfg}} : TRUE

(* ------------------------- source files ------------------------------ *)
\* Parse trees (tree-sitter-typescript) of the sources named in the comments.

(* samplets/foo.ts:
     function foo(x) {
       if (x > 10) {
         return x * 2;
       } else {
         return x;
       }
     }
*)
Tree_foo_ts == <<
    Nd("program", <<"f","u","n","c","t","i","o","n"," ","f","o","o","(","x",")"," ","{","\n"," "," ","i","f"," ","(","x"," ",">"," ","1","0",")"," ","{","\n"," "," "," "," ","r","e","t","u","r","n"," ","x"," ","*"," ","2",";","\n"," "," ","}"," ","e","l","s","e"," ","{","\n"," "," "," "," ","r","e","t","u","r","n"," ","x",";","\n"," "," ","}","\n","}","\n">>, 0, <<2>>, {}),
    Nd("function_declaration", <<"f","u","n","c","t","i","o","n"," ","f","o","o","(","x",")"," ","{","\n"," "," ","i","f"," ","(","x"," ",">"," ","1","0",")"," ","{","\n"," "," "," "," ","r","e","t","u","r","n"," ","x"," ","*"," ","2",";","\n"," "," ","}"," ","e","l","s","e"," ","{","\n"," "," "," "," ","r","e","t","u","r","n"," ","x",";","\n"," "," ","}","\n","}">>, 0, <<3, 4, 5, 10>>, {<<"name", 4>>, <<"parameters", 5>>, <<"body", 10>>}),
    Nd("function", <<"f","u","n","c","t","i","o","n">>, 0, <<>>, {}),
    Nd("identifier", <<"f","o","o">>, 9, <<>>, {}),
    Nd("formal_parameters", <<"(","x",")">>, 12, <<6, 7, 9>>, {}),
    Nd("(", <<"(">>, 12, <<>>, {}),
    Nd("required_parameter", <<"x">>, 13, <<8>>, {<<"pattern", 8>>}),
    Nd("identifier", <<"x">>, 13, <<>>, {}),
    Nd(")", <<")">>, 14, <<>>, {}),
    Nd("statement_block", <<"{","\n"," "," ","i","f"," ","(","x"," ",">"," ","1","0",")"," ","{","\n"," "," "," "," ","r","e","t","u","r","n"," ","x"," ","*"," ","2",";","\n"," "," ","}"," ","e","l","s","e"," ","{","\n"," "," "," "," ","r","e","t","u","r","n"," ","x",";","\n"," "," ","}","\n","}">>, 16, <<11, 12, 40>>, {}),
    Nd("{", <<"{">>, 16, <<>>, {}),
    Nd("if_statement", <<"i","f"," ","(","x"," ",">"," ","1","0",")"," ","{","\n"," "," "," "," ","r","e","t","u","r","n"," ","x"," ","*"," ","2",";","\n"," "," ","}"," ","e","l","s","e"," ","{","\n"," "," "," "," ","r","e","t","u","r","n"," ","x",";","\n"," "," ","}">>, 20, <<13, 14, 21, 31>>, {<<"condition", 14>>, <<"consequence", 21>>, <<"alternative", 31>>}),
    Nd("if", <<"i","f">>, 20, <<>>, {}),
    Nd("parenthesized_expression", <<"(","x"," ",">"," ","1","0",")">>, 23, <<15, 16, 20>>, {}),
    Nd("(", <<"(">>, 23, <<>>, {}),
    Nd("binary_expression", <<"x"," ",">"," ","1","0">>, 24, <<17, 18, 19>>, {<<"left", 17>>, <<"right", 19>>}),
    Nd("identifier", <<"x">>, 24, <<>>, {}),
    Nd(">", <<">">>, 26, <<>>, {}),
    Nd("number", <<"1","0">>, 28, <<>>, {}),
    Nd(")", <<")">>, 30, <<>>, {}),
    Nd("statement_block", <<"{","\n"," "," "," "," ","r","e","t","u","r","n"," ","x"," ","*"," ","2",";","\n"," "," ","}">>, 32, <<22, 23, 30>>, {}),
    Nd("{", <<"{">>, 32, <<>>, {}),
    Nd("return_statement", <<"r","e","t","u","r","n"," ","x"," ","*"," ","2",";">>, 38, <<24, 25, 29>>, {}),
    Nd("return", <<"r","e","t","u","r","n">>, 38, <<>>, {}),
    Nd("binary_expression", <<"x"," ","*"," ","2">>, 45, <<26, 27, 28>>, {<<"left", 26>>, <<"right", 28>>}),
    Nd("identifier", <<"x">>, 45, <<>>, {}),
    Nd("*", <<"*">>, 47, <<>>, {}),
    Nd("number", <<"2">>, 49, <<>>, {}),
    Nd(";", <<";">>, 50, <<>>, {}),
    Nd("}", <<"}">>, 54, <<>>, {}),
    Nd("else_clause", <<"e","l","s","e"," ","{","\n"," "," "," "," ","r","e","t","u","r","n"," ","x",";","\n"," "," ","}">>, 56, <<32, 33>>, {}),
    Nd("else", <<"e","l","s","e">>, 56, <<>>, {}),
    Nd("statement_block", <<"{","\n"," "," "," "," ","r","e","t","u","r","n"," ","x",";","\n"," "," ","}">>, 61, <<34, 35, 39>>, {}),
    Nd("{", <<"{">>, 61, <<>>, {}),
    Nd("return_statement", <<"r","e","t","u","r","n"," ","x",";">>, 67, <<36, 37, 38>>, {}),
    Nd("return", <<"r","e","t","u","r","n">>, 67, <<>>, {}),
    Nd("identifier", <<"x">>, 74, <<>>, {}),
    Nd(";", <<";">>, 75, <<>>, {}),
    Nd("}", <<"}">>, 79, <<>>, {}),
    Nd("}", <<"}">>, 81, <<>>, {})
>>

Path_foo_ts == <<"s","a","m","p","l","e","t","s","/","f","o","o",".","t","s">>

(* samplets/baz.ts:
     function baz() {
       for (let i = 0; i < 3; i++) {
         console.log(i);
       }
     }
*)
Tree_baz_ts == <<
    Nd("program", <<"f","u","n","c","t","i","o","n"," ","b","a","z","(",")"," ","{","\n"," "," ","f","o","r"," ","(","l","e","t"," ","i"," ","="," ","0",";"," ","i"," ","<"," ","3",";"," ","i","+","+",")"," ","{","\n"," "," "," "," ","c","o","n","s","o","l","e",".","l","o","g","(","i",")",";","\n"," "," ","}","\n","}","\n">>, 0, <<2>>, {}),
    Nd("function_declaration", <<"f","u","n","c","t","i","o","n"," ","b","a","z","(",")"," ","{","\n"," "," ","f","o","r"," ","(","l","e","t"," ","i"," ","="," ","0",";"," ","i"," ","<"," ","3",";"," ","i","+","+",")"," ","{","\n"," "," "," "," ","c","o","n","s","o","l","e",".","l","o","g","(","i",")",";","\n"," "," ","}","\n","}">>, 0, <<3, 4, 5, 8>>, {<<"name", 4>>, <<"parameters", 5>>, <<"body", 8>>}),
    Nd("function", <<"f","u","n","c","t","i","o","n">>, 0, <<>>, {}),
    Nd("identifier", <<"b","a","z">>, 9, <<>>, {}),
    Nd("formal_parameters", <<"(",")">>, 12, <<6, 7>>, {}),
    Nd("(", <<"(">>, 12, <<>>, {}),
    Nd(")", <<")">>, 13, <<>>, {}),
    Nd("statement_block", <<"{","\n"," "," ","f","o","r"," ","(","l","e","t"," ","i"," ","="," ","0",";"," ","i"," ","<"," ","3",";"," ","i","+","+",")"," ","{","\n"," "," "," "," ","c","o","n","s","o","l","e",".","l","o","g","(","i",")",";","\n"," "," ","}","\n","}">>, 15, <<9, 10, 44>>, {}),
    Nd("{", <<"{">>, 15, <<>>, {}),
    Nd("for_statement", <<"f","o","r"," ","(","l","e","t"," ","i"," ","="," ","0",";"," ","i"," ","<"," ","3",";"," ","i","+","+",")"," ","{","\n"," "," "," "," ","c","o","n","s","o","l","e",".","l","o","g","(","i",")",";","\n"," "," ","}">>, 19, <<11, 12, 13, 20, 26, 29, 30>>, {<<"initializer", 13>>, <<"condition", 20>>, <<"increment", 26>>, <<"body", 30>>}),
    Nd("for", <<"f","o","r">>, 19, <<>>, {}),
    Nd("(", <<"(">>, 23, <<>>, {}),
    Nd("lexical_declaration", <<"l","e","t"," ","i"," ","="," ","0",";">>, 24, <<14, 15, 19>>, {}),
    Nd("let", <<"l","e","t">>, 24, <<>>, {}),
    Nd("variable_declarator", <<"i"," ","="," ","0">>, 28, <<16, 17, 18>>, {<<"name", 16>>, <<"value", 18>>}),
    Nd("identifier", <<"i">>, 28, <<>>, {}),
    Nd("=", <<"=">>, 30, <<>>, {}),
    Nd("number", <<"0">>, 32, <<>>, {}),
    Nd(";", <<";">>, 33, <<>>, {}),
    Nd("expression_statement", <<"i"," ","<"," ","3",";">>, 35, <<21, 25>>, {}),
    Nd("binary_expression", <<"i"," ","<"," ","3">>, 35, <<22, 23, 24>>, {<<"left", 22>>, <<"right", 24>>}),
    Nd("identifier", <<"i">>, 35, <<>>, {}),
    Nd("<", <<"<">>, 37, <<>>, {}),
    Nd("number", <<"3">>, 39, <<>>, {}),
    Nd(";", <<";">>, 40, <<>>, {}),
    Nd("update_expression", <<"i","+","+">>, 42, <<27, 28>>, {<<"argument", 27>>}),
    Nd("identifier", <<"i">>, 42, <<>>, {}),
    Nd("++", <<"+","+">>, 43, <<>>, {}),
    Nd(")", <<")">>, 45, <<>>, {}),
    Nd("statement_block", <<"{","\n"," "," "," "," ","c","o","n","s","o","l","e",".","l","o","g","(","i",")",";","\n"," "," ","}">>, 47, <<31, 32, 43>>, {}),
    Nd("{", <<"{">>, 47, <<>>, {}),
    Nd("expression_statement", <<"c","o","n","s","o","l","e",".","l","o","g","(","i",")",";">>, 53, <<33, 42>>, {}),
    Nd("call_expression", <<"c","o","n","s","o","l","e",".","l","o","g","(","i",")">>, 53, <<34, 38>>, {<<"function", 34>>, <<"arguments", 38>>}),
    Nd("member_expression", <<"c","o","n","s","o","l","e",".","l","o","g">>, 53, <<35, 36, 37>>, {<<"object", 35>>, <<"property", 37>>}),
    Nd("identifier", <<"c","o","n","s","o","l","e">>, 53, <<>>, {}),
    Nd(".", <<".">>, 60, <<>>, {}),
    Nd("property_identifier", <<"l","o","g">>, 61, <<>>, {}),
    Nd("arguments", <<"(","i",")">>, 64, <<39, 40, 41>>, {}),
    Nd("(", <<"(">>, 64, <<>>, {}),
    Nd("identifier", <<"i">>, 65, <<>>, {}),
    Nd(")", <<")">>, 66, <<>>, {}),
    Nd(";", <<";">>, 67, <<>>, {}),
    Nd("}", <<"}">>, 71, <<>>, {}),
    Nd("}", <<"}">>, 73, <<>>, {})
>>

Path_baz_ts == <<"s","a","m","p","l","e","t","s","/","b","a","z",".","t","s">>

(* src/a.ts:
     function handler() {
       return process.env.SECRET;
     }
*)
Tree_a_ts == <<
    Nd("program", <<"f","u","n","c","t","i","o","n"," ","h","a","n","d","l","e","r","(",")"," ","{","\n"," "," ","r","e","t","u","r","n"," ","p","r","o","c","e","s","s",".","e","n","v",".","S","E","C","R","E","T",";","\n","}","\n">>, 0, <<2>>, {}),
    Nd("function_declaration", <<"f","u","n","c","t","i","o","n"," ","h","a","n","d","l","e","r","(",")"," ","{","\n"," "," ","r","e","t","u","r","n"," ","p","r","o","c","e","s","s",".","e","n","v",".","S","E","C","R","E","T",";","\n","}">>, 0, <<3, 4, 5, 8>>, {<<"name", 4>>, <<"parameters", 5>>, <<"body", 8>>}),
    Nd("function", <<"f","u","n","c","t","i","o","n">>, 0, <<>>, {}),
    Nd("identifier", <<"h","a","n","d","l","e","r">>, 9, <<>>, {}),
    Nd("formal_parameters", <<"(",")">>, 16, <<6, 7>>, {}),
    Nd("(", <<"(">>, 16, <<>>, {}),
    Nd(")", <<")">>, 17, <<>>, {}),
    Nd("statement_block", <<"{","\n"," "," ","r","e","t","u","r","n"," ","p","r","o","c","e","s","s",".","e","n","v",".","S","E","C","R","E","T",";","\n","}">>, 19, <<9, 10, 20>>, {}),
    Nd("{", <<"{">>, 19, <<>>, {}),
    Nd("return_statement", <<"r","e","t","u","r","n"," ","p","r","o","c","e","s","s",".","e","n","v",".","S","E","C","R","E","T",";">>, 23, <<11, 12, 19>>, {}),
    Nd("return", <<"r","e","t","u","r","n">>, 23, <<>>, {}),
    Nd("member_expression", <<"p","r","o","c","e","s","s",".","e","n","v",".","S","E","C","R","E","T">>, 30, <<13, 17, 18>>, {<<"object", 13>>, <<"property", 18>>}),
    Nd("member_expression", <<"p","r","o","c","e","s","s",".","e","n","v">>, 30, <<14, 15, 16>>, {<<"object", 14>>, <<"property", 16>>}),
    Nd("identifier", <<"p","r","o","c","e","s","s">>, 30, <<>>, {}),
    Nd(".", <<".">>, 37, <<>>, {}),
    Nd("property_identifier", <<"e","n","v">>, 38, <<>>, {}),
    Nd(".", <<".">>, 41, <<>>, {}),
    Nd("property_identifier", <<"S","E","C","R","E","T">>, 42, <<>>, {}),
    Nd(";", <<";">>, 48, <<>>, {}),
    Nd("}", <<"}">>, 50, <<>>, {})
>>

Path_a_ts == <<"s","r","c","/","a",".","t","s">>

(* src/b.ts:
     function handler() {
       return process.env.SECRET;
     }
*)
Path_b_ts == <<"s","r","c","/","b",".","t","s">>

(* src/login.ts:
     function login(Password) {
       if (Password) {
         return axios.post(u, Password);
       }
     }
     function handler() {
       return process.env.SECRET;
     }
*)
Tree_login_ts == <<
    Nd("program", <<"f","u","n","c","t","i","o","n"," ","l","o","g","i","n","(","P","a","s","s","w","o","r","d",")"," ","{","\n"," "," ","i","f"," ","(","P","a","s","s","w","o","r","d",")"," ","{","\n"," "," "," "," ","r","e","t","u","r","n"," ","a","x","i","o","s",".","p","o","s","t","(","u",","," ","P","a","s","s","w","o","r","d",")",";","\n"," "," ","}","\n","}","\n","f","u","n","c","t","i","o","n"," ","h","a","n","d","l","e","r","(",")"," ","{","\n"," "," ","r","e","t","u","r","n"," ","p","r","o","c","e","s","s",".","e","n","v",".","S","E","C","R","E","T",";","\n","}","\n">>, 0, <<2, 36>>, {}),
    Nd("function_declaration", <<"f","u","n","c","t","i","o","n"," ","l","o","g","i","n","(","P","a","s","s","w","o","r","d",")"," ","{","\n"," "," ","i","f"," ","(","P","a","s","s","w","o","r","d",")"," ","{","\n"," "," "," "," ","r","e","t","u","r","n"," ","a","x","i","o","s",".","p","o","s","t","(","u",","," ","P","a","s","s","w","o","r","d",")",";","\n"," "," ","}","\n","}">>, 0, <<3, 4, 5, 10>>, {<<"name", 4>>, <<"parameters", 5>>, <<"body", 10>>}),
    Nd("function", <<"f","u","n","c","t","i","o","n">>, 0, <<>>, {}),
    Nd("identifier", <<"l","o","g","i","n">>, 9, <<>>, {}),
    Nd("formal_parameters", <<"(","P","a","s","s","w","o","r","d",")">>, 14, <<6, 7, 9>>, {}),
    Nd("(", <<"(">>, 14, <<>>, {}),
    Nd("required_parameter", <<"P","a","s","s","w","o","r","d">>, 15, <<8>>, {<<"pattern", 8>>}),
    Nd("identifier", <<"P","a","s","s","w","o","r","d">>, 15, <<>>, {}),
    Nd(")", <<")">>, 23, <<>>, {}),
    Nd("statement_block", <<"{","\n"," "," ","i","f"," ","(","P","a","s","s","w","o","r","d",")"," ","{","\n"," "," "," "," ","r","e","t","u","r","n"," ","a","x","i","o","s",".","p","o","s","t","(","u",","," ","P","a","s","s","w","o","r","d",")",";","\n"," "," ","}","\n","}">>, 25, <<11, 12, 35>>, {}),
    Nd("{", <<"{">>, 25, <<>>, {}),
    Nd("if_statement", <<"i","f"," ","(","P","a","s","s","w","o","r","d",")"," ","{","\n"," "," "," "," ","r","e","t","u","r","n"," ","a","x","i","o","s",".","p","o","s","t","(","u",","," ","P","a","s","s","w","o","r","d",")",";","\n"," "," ","}">>, 29, <<13, 14, 18>>, {<<"condition", 14>>, <<"consequence", 18>>}),
    Nd("if", <<"i","f">>, 29, <<>>, {}),
    Nd("parenthesized_expression", <<"(","P","a","s","s","w","o","r","d",")">>, 32, <<15, 16, 17>>, {}),
    Nd("(", <<"(">>, 32, <<>>, {}),
    Nd("identifier", <<"P","a","s","s","w","o","r","d">>, 33, <<>>, {}),
    Nd(")", <<")">>, 41, <<>>, {}),
    Nd("statement_block", <<"{","\n"," "," "," "," ","r","e","t","u","r","n"," ","a","x","i","o","s",".","p","o","s","t","(","u",","," ","P","a","s","s","w","o","r","d",")",";","\n"," "," ","}">>, 43, <<19, 20, 34>>, {}),
    Nd("{", <<"{">>, 43, <<>>, {}),
    Nd("return_statement", <<"r","e","t","u","r","n"," ","a","x","i","o","s",".","p","o","s","t","(","u",","," ","P","a","s","s","w","o","r","d",")",";">>, 49, <<21, 22, 33>>, {}),
    Nd("return", <<"r","e","t","u","r","n">>, 49, <<>>, {}),
    Nd("call_expression", <<"a","x","i","o","s",".","p","o","s","t","(","u",","," ","P","a","s","s","w","o","r","d",")">>, 56, <<23, 27>>, {<<"function", 23>>, <<"arguments", 27>>}),
    Nd("member_expression", <<"a","x","i","o","s",".","p","o","s","t">>, 56, <<24, 25, 26>>, {<<"object", 24>>, <<"property", 26>>}),
    Nd("identifier", <<"a","x","i","o","s">>, 56, <<>>, {}),
    Nd(".", <<".">>, 61, <<>>, {}),
    Nd("property_identifier", <<"p","o","s","t">>, 62, <<>>, {}),
    Nd("arguments", <<"(","u",","," ","P","a","s","s","w","o","r","d",")">>, 66, <<28, 29, 30, 31, 32>>, {}),
    Nd("(", <<"(">>, 66, <<>>, {}),
    Nd("identifier", <<"u">>, 67, <<>>, {}),
    Nd(",", <<",">>, 68, <<>>, {}),
    Nd("identifier", <<"P","a","s","s","w","o","r","d">>, 70, <<>>, {}),
    Nd(")", <<")">>, 78, <<>>, {}),
    Nd(";", <<";">>, 79, <<>>, {}),
    Nd("}", <<"}">>, 83, <<>>, {}),
    Nd("}", <<"}">>, 85, <<>>, {}),
    Nd("function_declaration", <<"f","u","n","c","t","i","o","n"," ","h","a","n","d","l","e","r","(",")"," ","{","\n"," "," ","r","e","t","u","r","n"," ","p","r","o","c","e","s","s",".","e","n","v",".","S","E","C","R","E","T",";","\n","}">>, 87, <<37, 38, 39, 42>>, {<<"name", 38>>, <<"parameters", 39>>, <<"body", 42>>}),
    Nd("function", <<"f","u","n","c","t","i","o","n">>, 87, <<>>, {}),
    Nd("identifier", <<"h","a","n","d","l","e","r">>, 96, <<>>, {}),
    Nd("formal_parameters", <<"(",")">>, 103, <<40, 41>>, {}),
    Nd("(", <<"(">>, 103, <<>>, {}),
    Nd(")", <<")">>, 104, <<>>, {}),
    Nd("statement_block", <<"{","\n"," "," ","r","e","t","u","r","n"," ","p","r","o","c","e","s","s",".","e","n","v",".","S","E","C","R","E","T",";","\n","}">>, 106, <<43, 44, 54>>, {}),
    Nd("{", <<"{">>, 106, <<>>, {}),
    Nd("return_statement", <<"r","e","t","u","r","n"," ","p","r","o","c","e","s","s",".","e","n","v",".","S","E","C","R","E","T",";">>, 110, <<45, 46, 53>>, {}),
    Nd("return", <<"r","e","t","u","r","n">>, 110, <<>>, {}),
    Nd("member_expression", <<"p","r","o","c","e","s","s",".","e","n","v",".","S","E","C","R","E","T">>, 117, <<47, 51, 52>>, {<<"object", 47>>, <<"property", 52>>}),
    Nd("member_expression", <<"p","r","o","c","e","s","s",".","e","n","v">>, 117, <<48, 49, 50>>, {<<"object", 48>>, <<"property", 50>>}),
    Nd("identifier", <<"p","r","o","c","e","s","s">>, 117, <<>>, {}),
    Nd(".", <<".">>, 124, <<>>, {}),
    Nd("property_identifier", <<"e","n","v">>, 125, <<>>, {}),
    Nd(".", <<".">>, 128, <<>>, {}),
    Nd("property_identifier", <<"S","E","C","R","E","T">>, 129, <<>>, {}),
    Nd(";", <<";">>, 135, <<>>, {}),
    Nd("}", <<"}">>, 137, <<>>, {})
>>

Path_login_ts == <<"s","r","c","/","l","o","g","i","n",".","t","s">>

(* src/spin.ts:
     function spin() {
       while (x) {}
       while (x) {}
     }
*)
Tree_spin_ts == <<
    Nd("program", <<"f","u","n","c","t","i","o","n"," ","s","p","i","n","(",")"," ","{","\n"," "," ","w","h","i","l","e"," ","(","x",")"," ","{","}","\n"," "," ","w","h","i","l","e"," ","(","x",")"," ","{","}","\n","}","\n">>, 0, <<2>>, {}),
    Nd("function_declaration", <<"f","u","n","c","t","i","o","n"," ","s","p","i","n","(",")"," ","{","\n"," "," ","w","h","i","l","e"," ","(","x",")"," ","{","}","\n"," "," ","w","h","i","l","e"," ","(","x",")"," ","{","}","\n","}">>, 0, <<3, 4, 5, 8>>, {<<"name", 4>>, <<"parameters", 5>>, <<"body", 8>>}),
    Nd("function", <<"f","u","n","c","t","i","o","n">>, 0, <<>>, {}),
    Nd("identifier", <<"s","p","i","n">>, 9, <<>>, {}),
    Nd("formal_parameters", <<"(",")">>, 13, <<6, 7>>, {}),
    Nd("(", <<"(">>, 13, <<>>, {}),
    Nd(")", <<")">>, 14, <<>>, {}),
    Nd("statement_block", <<"{","\n"," "," ","w","h","i","l","e"," ","(","x",")"," ","{","}","\n"," "," ","w","h","i","l","e"," ","(","x",")"," ","{","}","\n","}">>, 16, <<9, 10, 19, 28>>, {}),
    Nd("{", <<"{">>, 16, <<>>, {}),
    Nd("while_statement", <<"w","h","i","l","e"," ","(","x",")"," ","{","}">>, 20, <<11, 12, 16>>, {<<"condition", 12>>, <<"body", 16>>}),
    Nd("while", <<"w","h","i","l","e">>, 20, <<>>, {}),
    Nd("parenthesized_expression", <<"(","x",")">>, 26, <<13, 14, 15>>, {}),
    Nd("(", <<"(">>, 26, <<>>, {}),
    Nd("identifier", <<"x">>, 27, <<>>, {}),
    Nd(")", <<")">>, 28, <<>>, {}),
    Nd("statement_block", <<"{","}">>, 30, <<17, 18>>, {}),
    Nd("{", <<"{">>, 30, <<>>, {}),
    Nd("}", <<"}">>, 31, <<>>, {}),
    Nd("while_statement", <<"w","h","i","l","e"," ","(","x",")"," ","{","}">>, 35, <<20, 21, 25>>, {<<"condition", 21>>, <<"body", 25>>}),
    Nd("while", <<"w","h","i","l","e">>, 35, <<>>, {}),
    Nd("parenthesized_expression", <<"(","x",")">>, 41, <<22, 23, 24>>, {}),
    Nd("(", <<"(">>, 41, <<>>, {}),
    Nd("identifier", <<"x">>, 42, <<>>, {}),
    Nd(")", <<")">>, 43, <<>>, {}),
    Nd("statement_block", <<"{","}">>, 45, <<26, 27>>, {}),
    Nd("{", <<"{">>, 45, <<>>, {}),
    Nd("}", <<"}">>, 46, <<>>, {}),
    Nd("}", <<"}">>, 48, <<>>, {})
>>

Path_spin_ts == <<"s","r","c","/","s","p","i","n",".","t","s">>

(* src/c.ts:
     function handler() {
       console.log(i);
       return process.env.SECRET;
     }
*)
Tree_c_ts == <<
    Nd("program", <<"f","u","n","c","t","i","o","n"," ","h","a","n","d","l","e","r","(",")"," ","{","\n"," "," ","c","o","n","s","o","l","e",".","l","o","g","(","i",")",";","\n"," "," ","r","e","t","u","r","n"," ","p","r","o","c","e","s","s",".","e","n","v",".","S","E","C","R","E","T",";","\n","}","\n">>, 0, <<2>>, {}),
    Nd("function_declaration", <<"f","u","n","c","t","i","o","n"," ","h","a","n","d","l","e","r","(",")"," ","{","\n"," "," ","c","o","n","s","o","l","e",".","l","o","g","(","i",")",";","\n"," "," ","r","e","t","u","r","n"," ","p","r","o","c","e","s","s",".","e","n","v",".","S","E","C","R","E","T",";","\n","}">>, 0, <<3, 4, 5, 8>>, {<<"name", 4>>, <<"parameters", 5>>, <<"body", 8>>}),
    Nd("function", <<"f","u","n","c","t","i","o","n">>, 0, <<>>, {}),
    Nd("identifier", <<"h","a","n","d","l","e","r">>, 9, <<>>, {}),
    Nd("formal_parameters", <<"(",")">>, 16, <<6, 7>>, {}),
    Nd("(", <<"(">>, 16, <<>>, {}),
    Nd(")", <<")">>, 17, <<>>, {}),
    Nd("statement_block", <<"{","\n"," "," ","c","o","n","s","o","l","e",".","l","o","g","(","i",")",";","\n"," "," ","r","e","t","u","r","n"," ","p","r","o","c","e","s","s",".","e","n","v",".","S","E","C","R","E","T",";","\n","}">>, 19, <<9, 10, 21, 31>>, {}),
    Nd("{", <<"{">>, 19, <<>>, {}),
    Nd("expression_statement", <<"c","o","n","s","o","l","e",".","l","o","g","(","i",")",";">>, 23, <<11, 20>>, {}),
    Nd("call_expression", <<"c","o","n","s","o","l","e",".","l","o","g","(","i",")">>, 23, <<12, 16>>, {<<"function", 12>>, <<"arguments", 16>>}),
    Nd("member_expression", <<"c","o","n","s","o","l","e",".","l","o","g">>, 23, <<13, 14, 15>>, {<<"object", 13>>, <<"property", 15>>}),
    Nd("identifier", <<"c","o","n","s","o","l","e">>, 23, <<>>, {}),
    Nd(".", <<".">>, 30, <<>>, {}),
    Nd("property_identifier", <<"l","o","g">>, 31, <<>>, {}),
    Nd("arguments", <<"(","i",")">>, 34, <<17, 18, 19>>, {}),
    Nd("(", <<"(">>, 34, <<>>, {}),
    Nd("identifier", <<"i">>, 35, <<>>, {}),
    Nd(")", <<")">>, 36, <<>>, {}),
    Nd(";", <<";">>, 37, <<>>, {}),
    Nd("return_statement", <<"r","e","t","u","r","n"," ","p","r","o","c","e","s","s",".","e","n","v",".","S","E","C","R","E","T",";">>, 41, <<22, 23, 30>>, {}),
    Nd("return", <<"r","e","t","u","r","n">>, 41, <<>>, {}),
    Nd("member_expression", <<"p","r","o","c","e","s","s",".","e","n","v",".","S","E","C","R","E","T">>, 48, <<24, 28, 29>>, {<<"object", 24>>, <<"property", 29>>}),
    Nd("member_expression", <<"p","r","o","c","e","s","s",".","e","n","v">>, 48, <<25, 26, 27>>, {<<"object", 25>>, <<"property", 27>>}),
    Nd("identifier", <<"p","r","o","c","e","s","s">>, 48, <<>>, {}),
    Nd(".", <<".">>, 55, <<>>, {}),
    Nd("property_identifier", <<"e","n","v">>, 56, <<>>, {}),
    Nd(".", <<".">>, 59, <<>>, {}),
    Nd("property_identifier", <<"S","E","C","R","E","T">>, 60, <<>>, {}),
    Nd(";", <<";">>, 66, <<>>, {}),
    Nd("}", <<"}">>, 68, <<>>, {})
>>

Path_c_ts == <<"s","r","c","/","c",".","t","s">>

(* src/p.ts:
     function f() {
       if (a) { // p
       }
       if (b) { // q|If: if (c) {
       }
     }
*)
Tree_p_ts == <<
    Nd("program", <<"f","u","n","c","t","i","o","n"," ","f","(",")"," ","{","\n"," "," ","i","f"," ","(","a",")"," ","{"," ","/","/"," ","p","\n"," "," ","}","\n"," "," ","i","f"," ","(","b",")"," ","{"," ","/","/"," ","q","|","I","f",":"," ","i","f"," ","(","c",")"," ","{","\n"," "," ","}","\n","}","\n">>, 0, <<2>>, {}),
    Nd("function_declaration", <<"f","u","n","c","t","i","o","n"," ","f","(",")"," ","{","\n"," "," ","i","f"," ","(","a",")"," ","{"," ","/","/"," ","p","\n"," "," ","}","\n"," "," ","i","f"," ","(","b",")"," ","{"," ","/","/"," ","q","|","I","f",":"," ","i","f"," ","(","c",")"," ","{","\n"," "," ","}","\n","}">>, 0, <<3, 4, 5, 8>>, {<<"name", 4>>, <<"parameters", 5>>, <<"body", 8>>}),
    Nd("function", <<"f","u","n","c","t","i","o","n">>, 0, <<>>, {}),
    Nd("identifier", <<"f">>, 9, <<>>, {}),
    Nd("formal_parameters", <<"(",")">>, 10, <<6, 7>>, {}),
    Nd("(", <<"(">>, 10, <<>>, {}),
    Nd(")", <<")">>, 11, <<>>, {}),
    Nd("statement_block", <<"{","\n"," "," ","i","f"," ","(","a",")"," ","{"," ","/","/"," ","p","\n"," "," ","}","\n"," "," ","i","f"," ","(","b",")"," ","{"," ","/","/"," ","q","|","I","f",":"," ","i","f"," ","(","c",")"," ","{","\n"," "," ","}","\n","}">>, 13, <<9, 10, 20, 30>>, {}),
    Nd("{", <<"{">>, 13, <<>>, {}),
    Nd("if_statement", <<"i","f"," ","(","a",")"," ","{"," ","/","/"," ","p","\n"," "," ","}">>, 17, <<11, 12, 16>>, {<<"condition", 12>>, <<"consequence", 16>>}),
    Nd("if", <<"i","f">>, 17, <<>>, {}),
    Nd("parenthesized_expression", <<"(","a",")">>, 20, <<13, 14, 15>>, {}),
    Nd("(", <<"(">>, 20, <<>>, {}),
    Nd("identifier", <<"a">>, 21, <<>>, {}),
    Nd(")", <<")">>, 22, <<>>, {}),
    Nd("statement_block", <<"{"," ","/","/"," ","p","\n"," "," ","}">>, 24, <<17, 18, 19>>, {}),
    Nd("{", <<"{">>, 24, <<>>, {}),
    Nd("comment", <<"/","/"," ","p">>, 26, <<>>, {}),
    Nd("}", <<"}">>, 33, <<>>, {}),
    Nd("if_statement", <<"i","f"," ","(","b",")"," ","{"," ","/","/"," ","q","|","I","f",":"," ","i","f"," ","(","c",")"," ","{","\n"," "," ","}">>, 37, <<21, 22, 26>>, {<<"condition", 22>>, <<"consequence", 26>>}),
    Nd("if", <<"i","f">>, 37, <<>>, {}),
    Nd("parenthesized_expression", <<"(","b",")">>, 40, <<23, 24, 25>>, {}),
    Nd("(", <<"(">>, 40, <<>>, {}),
    Nd("identifier", <<"b">>, 41, <<>>, {}),
    Nd(")", <<")">>, 42, <<>>, {}),
    Nd("statement_block", <<"{"," ","/","/"," ","q","|","I","f",":"," ","i","f"," ","(","c",")"," ","{","\n"," "," ","}">>, 44, <<27, 28, 29>>, {}),
    Nd("{", <<"{">>, 44, <<>>, {}),
    Nd("comment", <<"/","/"," ","q","|","I","f",":"," ","i","f"," ","(","c",")"," ","{">>, 46, <<>>, {}),
    Nd("}", <<"}">>, 66, <<>>, {}),
    Nd("}", <<"}">>, 68, <<>>, {})
>>

Path_p_ts == <<"s","r","c","/","p",".","t","s">>

(* src/q.ts:
     function f() {
       if (a) { // p|If: if (b) { // q
       }
       if (c) {
       }
     }
*)
Tree_q_ts == <<
    Nd("program", <<"f","u","n","c","t","i","o","n"," ","f","(",")"," ","{","\n"," "," ","i","f"," ","(","a",")"," ","{"," ","/","/"," ","p","|","I","f",":"," ","i","f"," ","(","b",")"," ","{"," ","/","/"," ","q","\n"," "," ","}","\n"," "," ","i","f"," ","(","c",")"," ","{","\n"," "," ","}","\n","}","\n">>, 0, <<2>>, {}),
    Nd("function_declaration", <<"f","u","n","c","t","i","o","n"," ","f","(",")"," ","{","\n"," "," ","i","f"," ","(","a",")"," ","{"," ","/","/"," ","p","|","I","f",":"," ","i","f"," ","(","b",")"," ","{"," ","/","/"," ","q","\n"," "," ","}","\n"," "," ","i","f"," ","(","c",")"," ","{","\n"," "," ","}","\n","}">>, 0, <<3, 4, 5, 8>>, {<<"name", 4>>, <<"parameters", 5>>, <<"body", 8>>}),
    Nd("function", <<"f","u","n","c","t","i","o","n">>, 0, <<>>, {}),
    Nd("identifier", <<"f">>, 9, <<>>, {}),
    Nd("formal_parameters", <<"(",")">>, 10, <<6, 7>>, {}),
    Nd("(", <<"(">>, 10, <<>>, {}),
    Nd(")", <<")">>, 11, <<>>, {}),
    Nd("statement_block", <<"{","\n"," "," ","i","f"," ","(","a",")"," ","{"," ","/","/"," ","p","|","I","f",":"," ","i","f"," ","(","b",")"," ","{"," ","/","/"," ","q","\n"," "," ","}","\n"," "," ","i","f"," ","(","c",")"," ","{","\n"," "," ","}","\n","}">>, 13, <<9, 10, 20, 29>>, {}),
    Nd("{", <<"{">>, 13, <<>>, {}),
    Nd("if_statement", <<"i","f"," ","(","a",")"," ","{"," ","/","/"," ","p","|","I","f",":"," ","i","f"," ","(","b",")"," ","{"," ","/","/"," ","q","\n"," "," ","}">>, 17, <<11, 12, 16>>, {<<"condition", 12>>, <<"consequence", 16>>}),
    Nd("if", <<"i","f">>, 17, <<>>, {}),
    Nd("parenthesized_expression", <<"(","a",")">>, 20, <<13, 14, 15>>, {}),
    Nd("(", <<"(">>, 20, <<>>, {}),
    Nd("identifier", <<"a">>, 21, <<>>, {}),
    Nd(")", <<")">>, 22, <<>>, {}),
    Nd("statement_block", <<"{"," ","/","/"," ","p","|","I","f",":"," ","i","f"," ","(","b",")"," ","{"," ","/","/"," ","q","\n"," "," ","}">>, 24, <<17, 18, 19>>, {}),
    Nd("{", <<"{">>, 24, <<>>, {}),
    Nd("comment", <<"/","/"," ","p","|","I","f",":"," ","i","f"," ","(","b",")"," ","{"," ","/","/"," ","q">>, 26, <<>>, {}),
    Nd("}", <<"}">>, 51, <<>>, {}),
    Nd("if_statement", <<"i","f"," ","(","c",")"," ","{","\n"," "," ","}">>, 55, <<21, 22, 26>>, {<<"condition", 22>>, <<"consequence", 26>>}),
    Nd("if", <<"i","f">>, 55, <<>>, {}),
    Nd("parenthesized_expression", <<"(","c",")">>, 58, <<23, 24, 25>>, {}),
    Nd("(", <<"(">>, 58, <<>>, {}),
    Nd("identifier", <<"c">>, 59, <<>>, {}),
    Nd(")", <<")">>, 60, <<>>, {}),
    Nd("statement_block", <<"{","\n"," "," ","}">>, 62, <<27, 28>>, {}),
    Nd("{", <<"{">>, 62, <<>>, {}),
    Nd("}", <<"}">>, 66, <<>>, {}),
    Nd("}", <<"}">>, 68, <<>>, {})
>>

Path_q_ts == <<"s","r","c","/","q",".","t","s">>

(* src/route.ts:
     function routes() {
       @Get()
       class C {}
     }
*)
Tree_route_ts == <<
    Nd("program", <<"f","u","n","c","t","i","o","n"," ","r","o","u","t","e","s","(",")"," ","{","\n"," "," ","@","G","e","t","(",")","\n"," "," ","c","l","a","s","s"," ","C"," ","{","}","\n","}","\n">>, 0, <<2>>, {}),
    Nd("function_declaration", <<"f","u","n","c","t","i","o","n"," ","r","o","u","t","e","s","(",")"," ","{","\n"," "," ","@","G","e","t","(",")","\n"," "," ","c","l","a","s","s"," ","C"," ","{","}","\n","}">>, 0, <<3, 4, 5, 8>>, {<<"name", 4>>, <<"parameters", 5>>, <<"body", 8>>}),
    Nd("function", <<"f","u","n","c","t","i","o","n">>, 0, <<>>, {}),
    Nd("identifier", <<"r","o","u","t","e","s">>, 9, <<>>, {}),
    Nd("formal_parameters", <<"(",")">>, 15, <<6, 7>>, {}),
    Nd("(", <<"(">>, 15, <<>>, {}),
    Nd(")", <<")">>, 16, <<>>, {}),
    Nd("statement_block", <<"{","\n"," "," ","@","G","e","t","(",")","\n"," "," ","c","l","a","s","s"," ","C"," ","{","}","\n","}">>, 18, <<9, 10, 23>>, {}),
    Nd("{", <<"{">>, 18, <<>>, {}),
    Nd("class_declaration", <<"@","G","e","t","(",")","\n"," "," ","c","l","a","s","s"," ","C"," ","{","}">>, 22, <<11, 18, 19, 20>>, {<<"decorator", 11>>, <<"name", 19>>, <<"body", 20>>}),
    Nd("decorator", <<"@","G","e","t","(",")">>, 22, <<12, 13>>, {}),
    Nd("@", <<"@">>, 22, <<>>, {}),
    Nd("call_expression", <<"G","e","t","(",")">>, 23, <<14, 15>>, {<<"function", 14>>, <<"arguments", 15>>}),
    Nd("identifier", <<"G","e","t">>, 23, <<>>, {}),
    Nd("arguments", <<"(",")">>, 26, <<16, 17>>, {}),
    Nd("(", <<"(">>, 26, <<>>, {}),
    Nd(")", <<")">>, 27, <<>>, {}),
    Nd("class", <<"c","l","a","s","s">>, 31, <<>>, {}),
    Nd("type_identifier", <<"C">>, 37, <<>>, {}),
    Nd("class_body", <<"{","}">>, 39, <<21, 22>>, {}),
    Nd("{", <<"{">>, 39, <<>>, {}),
    Nd("}", <<"}">>, 40, <<>>, {}),
    Nd("}", <<"}">>, 42, <<>>, {})
>>

(* src/assign.ts:
     export default foo = () => { return 1; };
     exports.bar = function () { return 2; };
     baz = () => { return 3; };
*)
Tree_assign_ts == <<
    Nd("program", <<"e","x","p","o","r","t"," ","d","e","f","a","u","l","t"," ","f","o","o"," ","="," ","(",")"," ","=",">"," ","{"," ","r","e","t","u","r","n"," ","1",";"," ","}",";","\n","e","x","p","o","r","t","s",".","b","a","r"," ","="," ","f","u","n","c","t","i","o","n"," ","(",")"," ","{"," ","r","e","t","u","r","n"," ","2",";"," ","}",";","\n","b","a","z"," ","="," ","(",")"," ","=",">"," ","{"," ","r","e","t","u","r","n"," ","3",";"," ","}",";","\n">>, 0, <<2, 21, 41>>, {}),
    Nd("export_statement", <<"e","x","p","o","r","t"," ","d","e","f","a","u","l","t"," ","f","o","o"," ","="," ","(",")"," ","=",">"," ","{"," ","r","e","t","u","r","n"," ","1",";"," ","}",";">>, 0, <<3, 4, 5, 20>>, {<<"value", 5>>}),
    Nd("export", <<"e","x","p","o","r","t">>, 0, <<>>, {}),
    Nd("default", <<"d","e","f","a","u","l","t">>, 7, <<>>, {}),
    Nd("assignment_expression", <<"f","o","o"," ","="," ","(",")"," ","=",">"," ","{"," ","r","e","t","u","r","n"," ","1",";"," ","}">>, 15, <<6, 7, 8>>, {<<"left", 6>>, <<"right", 8>>}),
    Nd("identifier", <<"f","o","o">>, 15, <<>>, {}),
    Nd("=", <<"=">>, 19, <<>>, {}),
    Nd("arrow_function", <<"(",")"," ","=",">"," ","{"," ","r","e","t","u","r","n"," ","1",";"," ","}">>, 21, <<9, 12, 13>>, {<<"parameters", 9>>, <<"body", 13>>}),
    Nd("formal_parameters", <<"(",")">>, 21, <<10, 11>>, {}),
    Nd("(", <<"(">>, 21, <<>>, {}),
    Nd(")", <<")">>, 22, <<>>, {}),
    Nd("=>", <<"=",">">>, 24, <<>>, {}),
    Nd("statement_block", <<"{"," ","r","e","t","u","r","n"," ","1",";"," ","}">>, 27, <<14, 15, 19>>, {}),
    Nd("{", <<"{">>, 27, <<>>, {}),
    Nd("return_statement", <<"r","e","t","u","r","n"," ","1",";">>, 29, <<16, 17, 18>>, {}),
    Nd("return", <<"r","e","t","u","r","n">>, 29, <<>>, {}),
    Nd("number", <<"1">>, 36, <<>>, {}),
    Nd(";", <<";">>, 37, <<>>, {}),
    Nd("}", <<"}">>, 39, <<>>, {}),
    Nd(";", <<";">>, 40, <<>>, {}),
    Nd("expression_statement", <<"e","x","p","o","r","t","s",".","b","a","r"," ","="," ","f","u","n","c","t","i","o","n"," ","(",")"," ","{"," ","r","e","t","u","r","n"," ","2",";"," ","}",";">>, 42, <<22, 40>>, {}),
    Nd("assignment_expression", <<"e","x","p","o","r","t","s",".","b","a","r"," ","="," ","f","u","n","c","t","i","o","n"," ","(",")"," ","{"," ","r","e","t","u","r","n"," ","2",";"," ","}">>, 42, <<23, 27, 28>>, {<<"left", 23>>, <<"right", 28>>}),
    Nd("member_expression", <<"e","x","p","o","r","t","s",".","b","a","r">>, 42, <<24, 25, 26>>, {<<"object", 24>>, <<"property", 26>>}),
    Nd("identifier", <<"e","x","p","o","r","t","s">>, 42, <<>>, {}),
    Nd(".", <<".">>, 49, <<>>, {}),
    Nd("property_identifier", <<"b","a","r">>, 50, <<>>, {}),
    Nd("=", <<"=">>, 54, <<>>, {}),
    Nd("function_expression", <<"f","u","n","c","t","i","o","n"," ","(",")"," ","{"," ","r","e","t","u","r","n"," ","2",";"," ","}">>, 56, <<29, 30, 33>>, {<<"parameters", 30>>, <<"body", 33>>}),
    Nd("function", <<"f","u","n","c","t","i","o","n">>, 56, <<>>, {}),
    Nd("formal_parameters", <<"(",")">>, 65, <<31, 32>>, {}),
    Nd("(", <<"(">>, 65, <<>>, {}),
    Nd(")", <<")">>, 66, <<>>, {}),
    Nd("statement_block", <<"{"," ","r","e","t","u","r","n"," ","2",";"," ","}">>, 68, <<34, 35, 39>>, {}),
    Nd("{", <<"{">>, 68, <<>>, {}),
    Nd("return_statement", <<"r","e","t","u","r","n"," ","2",";">>, 70, <<36, 37, 38>>, {}),
    Nd("return", <<"r","e","t","u","r","n">>, 70, <<>>, {}),
    Nd("number", <<"2">>, 77, <<>>, {}),
    Nd(";", <<";">>, 78, <<>>, {}),
    Nd("}", <<"}">>, 80, <<>>, {}),
    Nd(";", <<";">>, 81, <<>>, {}),
    Nd("expression_statement", <<"b","a","z"," ","="," ","(",")"," ","=",">"," ","{"," ","r","e","t","u","r","n"," ","3",";"," ","}",";">>, 83, <<42, 57>>, {}),
    Nd("assignment_expression", <<"b","a","z"," ","="," ","(",")"," ","=",">"," ","{"," ","r","e","t","u","r","n"," ","3",";"," ","}">>, 83, <<43, 44, 45>>, {<<"left", 43>>, <<"right", 45>>}),
    Nd("identifier", <<"b","a","z">>, 83, <<>>, {}),
    Nd("=", <<"=">>, 87, <<>>, {}),
    Nd("arrow_function", <<"(",")"," ","=",">"," ","{"," ","r","e","t","u","r","n"," ","3",";"," ","}">>, 89, <<46, 49, 50>>, {<<"parameters", 46>>, <<"body", 50>>}),
    Nd("formal_parameters", <<"(",")">>, 89, <<47, 48>>, {}),
    Nd("(", <<"(">>, 89, <<>>, {}),
    Nd(")", <<")">>, 90, <<>>, {}),
    Nd("=>", <<"=",">">>, 92, <<>>, {}),
    Nd("statement_block", <<"{"," ","r","e","t","u","r","n"," ","3",";"," ","}">>, 95, <<51, 52, 56>>, {}),
    Nd("{", <<"{">>, 95, <<>>, {}),
    Nd("return_statement", <<"r","e","t","u","r","n"," ","3",";">>, 97, <<53, 54, 55>>, {}),
    Nd("return", <<"r","e","t","u","r","n">>, 97, <<>>, {}),
    Nd("number", <<"3">>, 104, <<>>, {}),
    Nd(";", <<";">>, 105, <<>>, {}),
    Nd("}", <<"}">>, 107, <<>>, {}),
    Nd(";", <<";">>, 108, <<>>, {})
>>

(* src/dup.ts:
     function h() { function f() { return 1; } }
     function f() { return 2; }
     function h() { return 4; }
*)
Tree_dup_ts == <<
    Nd("program", <<"f","u","n","c","t","i","o","n"," ","h","(",")"," ","{"," ","f","u","n","c","t","i","o","n"," ","f","(",")"," ","{"," ","r","e","t","u","r","n"," ","1",";"," ","}"," ","}","\n","f","u","n","c","t","i","o","n"," ","f","(",")"," ","{"," ","r","e","t","u","r","n"," ","2",";"," ","}","\n","f","u","n","c","t","i","o","n"," ","h","(",")"," ","{"," ","r","e","t","u","r","n"," ","4",";"," ","}","\n">>, 0, <<2, 24, 37>>, {}),
    Nd("function_declaration", <<"f","u","n","c","t","i","o","n"," ","h","(",")"," ","{"," ","f","u","n","c","t","i","o","n"," ","f","(",")"," ","{"," ","r","e","t","u","r","n"," ","1",";"," ","}"," ","}">>, 0, <<3, 4, 5, 8>>, {<<"name", 4>>, <<"parameters", 5>>, <<"body", 8>>}),
    Nd("function", <<"f","u","n","c","t","i","o","n">>, 0, <<>>, {}),
    Nd("identifier", <<"h">>, 9, <<>>, {}),
    Nd("formal_parameters", <<"(",")">>, 10, <<6, 7>>, {}),
    Nd("(", <<"(">>, 10, <<>>, {}),
    Nd(")", <<")">>, 11, <<>>, {}),
    Nd("statement_block", <<"{"," ","f","u","n","c","t","i","o","n"," ","f","(",")"," ","{"," ","r","e","t","u","r","n"," ","1",";"," ","}"," ","}">>, 13, <<9, 10, 23>>, {}),
    Nd("{", <<"{">>, 13, <<>>, {}),
    Nd("function_declaration", <<"f","u","n","c","t","i","o","n"," ","f","(",")"," ","{"," ","r","e","t","u","r","n"," ","1",";"," ","}">>, 15, <<11, 12, 13, 16>>, {<<"name", 12>>, <<"parameters", 13>>, <<"body", 16>>}),
    Nd("function", <<"f","u","n","c","t","i","o","n">>, 15, <<>>, {}),
    Nd("identifier", <<"f">>, 24, <<>>, {}),
    Nd("formal_parameters", <<"(",")">>, 25, <<14, 15>>, {}),
    Nd("(", <<"(">>, 25, <<>>, {}),
    Nd(")", <<")">>, 26, <<>>, {}),
    Nd("statement_block", <<"{"," ","r","e","t","u","r","n"," ","1",";"," ","}">>, 28, <<17, 18, 22>>, {}),
    Nd("{", <<"{">>, 28, <<>>, {}),
    Nd("return_statement", <<"r","e","t","u","r","n"," ","1",";">>, 30, <<19, 20, 21>>, {}),
    Nd("return", <<"r","e","t","u","r","n">>, 30, <<>>, {}),
    Nd("number", <<"1">>, 37, <<>>, {}),
    Nd(";", <<";">>, 38, <<>>, {}),
    Nd("}", <<"}">>, 40, <<>>, {}),
    Nd("}", <<"}">>, 42, <<>>, {}),
    Nd("function_declaration", <<"f","u","n","c","t","i","o","n"," ","f","(",")"," ","{"," ","r","e","t","u","r","n"," ","2",";"," ","}">>, 44, <<25, 26, 27, 30>>, {<<"name", 26>>, <<"parameters", 27>>, <<"body", 30>>}),
    Nd("function", <<"f","u","n","c","t","i","o","n">>, 44, <<>>, {}),
    Nd("identifier", <<"f">>, 53, <<>>, {}),
    Nd("formal_parameters", <<"(",")">>, 54, <<28, 29>>, {}),
    Nd("(", <<"(">>, 54, <<>>, {}),
    Nd(")", <<")">>, 55, <<>>, {}),
    Nd("statement_block", <<"{"," ","r","e","t","u","r","n"," ","2",";"," ","}">>, 57, <<31, 32, 36>>, {}),
    Nd("{", <<"{">>, 57, <<>>, {}),
    Nd("return_statement", <<"r","e","t","u","r","n"," ","2",";">>, 59, <<33, 34, 35>>, {}),
    Nd("return", <<"r","e","t","u","r","n">>, 59, <<>>, {}),
    Nd("number", <<"2">>, 66, <<>>, {}),
    Nd(";", <<";">>, 67, <<>>, {}),
    Nd("}", <<"}">>, 69, <<>>, {}),
    Nd("function_declaration", <<"f","u","n","c","t","i","o","n"," ","h","(",")"," ","{"," ","r","e","t","u","r","n"," ","4",";"," ","}">>, 71, <<38, 39, 40, 43>>, {<<"name", 39>>, <<"parameters", 40>>, <<"body", 43>>}),
    Nd("function", <<"f","u","n","c","t","i","o","n">>, 71, <<>>, {}),
    Nd("identifier", <<"h">>, 80, <<>>, {}),
    Nd("formal_parameters", <<"(",")">>, 81, <<41, 42>>, {}),
    Nd("(", <<"(">>, 81, <<>>, {}),
    Nd(")", <<")">>, 82, <<>>, {}),
    Nd("statement_block", <<"{"," ","r","e","t","u","r","n"," ","4",";"," ","}">>, 84, <<44, 45, 49>>, {}),
    Nd("{", <<"{">>, 84, <<>>, {}),
    Nd("return_statement", <<"r","e","t","u","r","n"," ","4",";">>, 86, <<46, 47, 48>>, {}),
    Nd("return", <<"r","e","t","u","r","n">>, 86, <<>>, {}),
    Nd("number", <<"4">>, 93, <<>>, {}),
    Nd(";", <<";">>, 94, <<>>, {}),
    Nd("}", <<"}">>, 96, <<>>, {})
>>

(* src/x<FF>.ts: a file name with the byte 0xFF, which is not UTF-8; the contents of spin.ts *)
Path_xff_ts == <<"s","r","c","/","x">> \o <<"0xFF">> \o <<".","t","s">>

(* src/x<FE>.ts: a file name with the byte 0xFE, which is not UTF-8; the contents of baz.ts *)
Path_xfe_ts == <<"s","r","c","/","x">> \o <<"0xFE">> \o <<".","t","s">>

(* ------------------------ statement fragments ------------------------ *)
\* Subtrees a generated function body is assembled from; ids are local.

(* if (Password) {} *)
Frag_if == <<
    Nd("if_statement", <<"i","f"," ","(","P","a","s","s","w","o","r","d",")"," ","{","}">>, 0, <<2, 3, 7>>, {<<"condition", 3>>, <<"consequence", 7>>}),
    Nd("if", <<"i","f">>, 0, <<>>, {}),
    Nd("parenthesized_expression", <<"(","P","a","s","s","w","o","r","d",")">>, 3, <<4, 5, 6>>, {}),
    Nd("(", <<"(">>, 3, <<>>, {}),
    Nd("identifier", <<"P","a","s","s","w","o","r","d">>, 4, <<>>, {}),
    Nd(")", <<")">>, 12, <<>>, {}),
    Nd("statement_block", <<"{","}">>, 14, <<8, 9>>, {}),
    Nd("{", <<"{">>, 14, <<>>, {}),
    Nd("}", <<"}">>, 15, <<>>, {})
>>

(* return x; *)
Frag_return == <<
    Nd("return_statement", <<"r","e","t","u","r","n"," ","x",";">>, 0, <<2, 3, 4>>, {}),
    Nd("return", <<"r","e","t","u","r","n">>, 0, <<>>, {}),
    Nd("identifier", <<"x">>, 7, <<>>, {}),
    Nd(";", <<";">>, 8, <<>>, {})
>>

(* console.log(i); *)
Frag_log == <<
    Nd("expression_statement", <<"c","o","n","s","o","l","e",".","l","o","g","(","i",")",";">>, 0, <<2, 11>>, {}),
    Nd("call_expression", <<"c","o","n","s","o","l","e",".","l","o","g","(","i",")">>, 0, <<3, 7>>, {<<"function", 3>>, <<"arguments", 7>>}),
    Nd("member_expression", <<"c","o","n","s","o","l","e",".","l","o","g">>, 0, <<4, 5, 6>>, {<<"object", 4>>, <<"property", 6>>}),
    Nd("identifier", <<"c","o","n","s","o","l","e">>, 0, <<>>, {}),
    Nd(".", <<".">>, 7, <<>>, {}),
    Nd("property_identifier", <<"l","o","g">>, 8, <<>>, {}),
    Nd("arguments", <<"(","i",")">>, 11, <<8, 9, 10>>, {}),
    Nd("(", <<"(">>, 11, <<>>, {}),
    Nd("identifier", <<"i">>, 12, <<>>, {}),
    Nd(")", <<")">>, 13, <<>>, {}),
    Nd(";", <<";">>, 14, <<>>, {})
>>

(* process.env.SECRET; *)
Frag_secret == <<
    Nd("expression_statement", <<"p","r","o","c","e","s","s",".","e","n","v",".","S","E","C","R","E","T",";">>, 0, <<2, 9>>, {}),
    Nd("member_expression", <<"p","r","o","c","e","s","s",".","e","n","v",".","S","E","C","R","E","T">>, 0, <<3, 7, 8>>, {<<"object", 3>>, <<"property", 8>>}),
    Nd("member_expression", <<"p","r","o","c","e","s","s",".","e","n","v">>, 0, <<4, 5, 6>>, {<<"object", 4>>, <<"property", 6>>}),
    Nd("identifier", <<"p","r","o","c","e","s","s">>, 0, <<>>, {}),
    Nd(".", <<".">>, 7, <<>>, {}),
    Nd("property_identifier", <<"e","n","v">>, 8, <<>>, {}),
    Nd(".", <<".">>, 11, <<>>, {}),
    Nd("property_identifier", <<"S","E","C","R","E","T">>, 12, <<>>, {}),
    Nd(";", <<";">>, 18, <<>>, {})
>>

(* @Post('auth') *)
Frag_deco == <<
    Nd("decorator", <<"@","P","o","s","t","(","'","a","u","t","h","'",")">>, 0, <<2, 3>>, {}),
    Nd("@", <<"@">>, 0, <<>>, {}),
    Nd("call_expression", <<"P","o","s","t","(","'","a","u","t","h","'",")">>, 1, <<4, 5>>, {<<"function", 4>>, <<"arguments", 5>>}),
    Nd("identifier", <<"P","o","s","t">>, 1, <<>>, {}),
    Nd("arguments", <<"(","'","a","u","t","h","'",")">>, 5, <<6, 7, 8>>, {}),
    Nd("(", <<"(">>, 5, <<>>, {}),
    Nd("string", <<"'","a","u","t","h","'">>, 6, <<>>, {}),
    Nd(")", <<")">>, 12, <<>>, {})
>>

(* for (;;) {   console.log(i); } *)
Frag_loop == <<
    Nd("for_statement", <<"f","o","r"," ","(",";",";",")"," ","{","\n"," "," ","c","o","n","s","o","l","e",".","l","o","g","(","i",")",";","\n","}">>, 0, <<2, 3, 4, 6, 8, 9>>, {<<"initializer", 4>>, <<"condition", 6>>, <<"body", 9>>}),
    Nd("for", <<"f","o","r">>, 0, <<>>, {}),
    Nd("(", <<"(">>, 4, <<>>, {}),
    Nd("empty_statement", <<";">>, 5, <<5>>, {}),
    Nd(";", <<";">>, 5, <<>>, {}),
    Nd("empty_statement", <<";">>, 6, <<7>>, {}),
    Nd(";", <<";">>, 6, <<>>, {}),
    Nd(")", <<")">>, 7, <<>>, {}),
    Nd("statement_block", <<"{","\n"," "," ","c","o","n","s","o","l","e",".","l","o","g","(","i",")",";","\n","}">>, 9, <<10, 11, 22>>, {}),
    Nd("{", <<"{">>, 9, <<>>, {}),
    Nd("expression_statement", <<"c","o","n","s","o","l","e",".","l","o","g","(","i",")",";">>, 13, <<12, 21>>, {}),
    Nd("call_expression", <<"c","o","n","s","o","l","e",".","l","o","g","(","i",")">>, 13, <<13, 17>>, {<<"function", 13>>, <<"arguments", 17>>}),
    Nd("member_expression", <<"c","o","n","s","o","l","e",".","l","o","g">>, 13, <<14, 15, 16>>, {<<"object", 14>>, <<"property", 16>>}),
    Nd("identifier", <<"c","o","n","s","o","l","e">>, 13, <<>>, {}),
    Nd(".", <<".">>, 20, <<>>, {}),
    Nd("property_identifier", <<"l","o","g">>, 21, <<>>, {}),
    Nd("arguments", <<"(","i",")">>, 24, <<18, 19, 20>>, {}),
    Nd("(", <<"(">>, 24, <<>>, {}),
    Nd("identifier", <<"i">>, 25, <<>>, {}),
    Nd(")", <<")">>, 26, <<>>, {}),
    Nd(";", <<";">>, 27, <<>>, {}),
    Nd("}", <<"}">>, 29, <<>>, {})
>>

(* while (x) { return x; } *)
Frag_while == <<
    Nd("while_statement", <<"w","h","i","l","e"," ","(","x",")"," ","{"," ","r","e","t","u","r","n"," ","x",";"," ","}">>, 0, <<2, 3, 7>>, {<<"condition", 3>>, <<"body", 7>>}),
    Nd("while", <<"w","h","i","l","e">>, 0, <<>>, {}),
    Nd("parenthesized_expression", <<"(","x",")">>, 6, <<4, 5, 6>>, {}),
    Nd("(", <<"(">>, 6, <<>>, {}),
    Nd("identifier", <<"x">>, 7, <<>>, {}),
    Nd(")", <<")">>, 8, <<>>, {}),
    Nd("statement_block", <<"{"," ","r","e","t","u","r","n"," ","x",";"," ","}">>, 10, <<8, 9, 13>>, {}),
    Nd("{", <<"{">>, 10, <<>>, {}),
    Nd("return_statement", <<"r","e","t","u","r","n"," ","x",";">>, 12, <<10, 11, 12>>, {}),
    Nd("return", <<"r","e","t","u","r","n">>, 12, <<>>, {}),
    Nd("identifier", <<"x">>, 19, <<>>, {}),
    Nd(";", <<";">>, 20, <<>>, {}),
    Nd("}", <<"}">>, 22, <<>>, {})
>>

(* ------------------------- generated bodies -------------------------- *)

FragNames == {"if", "return", "log", "secret", "deco", "loop", "while"}

Frag(name) ==
    CASE name = "if" -> Frag_if
      [] name = "return" -> Frag_return
      [] name = "log" -> Frag_log
      [] name = "secret" -> Frag_secret
      [] name = "deco" -> Frag_deco
      [] name = "loop" -> Frag_loop
      [] name = "while" -> Frag_while

Shift(n, off) ==
    [n EXCEPT !.kids = [i \in 1..Len(n.kids) |-> n.kids[i] + off],
              !.fld  = [x \in FieldNames |-> IF n.fld[x] = 0 THEN 0 ELSE n.fld[x] + off]]

RECURSIVE lay_out(_, _, _, _)
lay_out(frs, i, acc, roots) ==
    IF i > Len(frs) THEN [nodes |-> acc, roots |-> roots]
    ELSE CHOOSE r \in {lay_out(frs, i + 1, na, Append(roots, Len(acc) + 1)) :
                          na \in {acc \o [k \in 1..Len(Frag(frs[i])) |-> Shift(Frag(frs[i])[k], Len(acc))]}} : TRUE

\* a statement block (node 1) whose children are the fragments, in order
body_tree(frs) ==
    LET r == lay_out(frs, 1, <<Nd("statement_block", <<>>, 0, <<>>, {})>>, <<>>)
    IN  [r.nodes EXCEPT ![1].kids = r.roots]

(* ------------------------ the entity extractor ----------------------- *)
\* A per-file result maps qualified names to CFGs: a function whose domain
\* is the set of names; insert overwrites.

EmptyMap == [x \in {} |-> <<>>]

\* an insert that keeps the value a key already has
insert_if_absent(m, k, v) ==
    CHOOSE r \in {[x \in (DOMAIN mm) \cup {kk} |-> IF x \in DOMAIN mm THEN mm[x] ELSE vv] :
                     mm \in {m}, kk \in {k}, vv \in {v}} : TRUE

\* HashMap::insert
insert(m, k, v) ==
    CHOOSE r \in {[x \in (DOMAIN mm) \cup {kk} |-> IF x = kk THEN vv ELSE mm[x]] :
                     mm \in {m}, kk \in {k}, vv \in {v}} : TRUE

node_text(t, n) == t[n].text

body_or_self(t, n) ==
    IF child_by_field_name(t, n, "body") # 0 THEN child_by_field_name(t, n, "body") ELSE n

stored_cfg(t, body) == CHOOSE r \in {dedupe_cfg_edges(c) : c \in {build_structured_cfg(t, body)}} : TRUE

IsFunctionValue(t, n) == t[n].kind \in {"arrow_function", "function", "function_expression"}

L_anon == <<"<","a","n","o","n",">">>

Digits == <<"0","1","2","3","4","5","6","7","8","9">>

\* format!("{}", n) of a usize
RECURSIVE decimal(_)
decimal(n) == IF n < 10 THEN <<Digits[n + 1]>> ELSE Append(decimal(n \div 10), Digits[(n % 10) + 1])

extract_function_declaration(t, n, out) ==
    LET nm   == child_by_field_name(t, n, "name")
        name == IF nm # 0 THEN node_text(t, nm) ELSE L_anon
    IN  insert(out, name, stored_cfg(t, body_or_self(t, n)))

extract_class_member(t, class_name, m, out) ==
    LET kind == t[m].kind
    IN  IF kind = "method_definition" \/ kind = "constructor"
        THEN LET nn == IF child_by_field_name(t, m, "name") # 0 THEN child_by_field_name(t, m, "name")
                       ELSE IF child_by_field_name(t, m, "property") # 0 THEN child_by_field_name(t, m, "property")
                       ELSE child_by_field_name(t, m, "key")
                 method_name == IF nn # 0 THEN node_text(t, nn)
                                ELSE IF kind = "constructor" THEN <<"c","o","n","s","t","r","u","c","t","o","r">> ELSE <<"<","a","n","o","n","_","m","e","t","h","o","d",">">>
             IN  insert(out, class_name \o <<".">> \o method_name, stored_cfg(t, body_or_self(t, m)))
        ELSE IF kind = "public_field_definition" \/ kind = "private_field_definition"
        THEN LET nn == IF child_by_field_name(t, m, "name") # 0 THEN child_by_field_name(t, m, "name")
                       ELSE child_by_field_name(t, m, "property")
                 method_name == IF nn # 0 THEN node_text(t, nn) ELSE <<"<","a","n","o","n","_","f","i","e","l","d",">">>
                 val == child_by_field_name(t, m, "value")
             IN  IF val # 0 /\ IsFunctionValue(t, val)
                 THEN insert(out, class_name \o <<".">> \o method_name, stored_cfg(t, body_or_self(t, val)))
                 ELSE out
        ELSE out

RECURSIVE class_members(_, _, _, _, _)
class_members(t, class_name, body, i, out) ==
    IF i > child_count(t, body) THEN out
    ELSE CHOOSE r \in {class_members(t, class_name, body, i + 1, o) :
                          o \in {extract_class_member(t, class_name, child(t, body, i), out)}} : TRUE

extract_from_class(t, class_node, out) ==
    LET nm         == child_by_field_name(t, class_node, "name")
        class_name == IF nm # 0 THEN node_text(t, nm) ELSE <<"<","a","n","o","n","_","c","l","a","s","s",">">>
        body       == child_by_field_name(t, class_node, "body")
    IN  IF body = 0 THEN out ELSE class_members(t, class_name, body, 1, out)

extract_declarator(t, ch, out) ==
    LET name_node == child_by_field_name(t, ch, "name")
        val       == child_by_field_name(t, ch, "value")
    IN  IF name_node # 0 /\ val # 0 /\ IsFunctionValue(t, val)
        THEN insert(out, node_text(t, name_node), stored_cfg(t, body_or_self(t, val)))
        ELSE out

\* q is the stack of the search, top at the end
RECURSIVE var_children(_, _, _, _, _)
var_children(t, n, i, q, out) ==
    IF i > child_count(t, n) THEN [q |-> q, out |-> out]
    ELSE LET ch == child(t, n, i)
         IN  IF t[ch].kind = "variable_declarator"
             THEN CHOOSE r \in {var_children(t, n, i + 1, q, o) : o \in {extract_declarator(t, ch, out)}} : TRUE
             ELSE CHOOSE r \in {var_children(t, n, i + 1, nq, out) : nq \in {Append(q, ch)}} : TRUE

RECURSIVE var_search(_, _, _)
var_search(t, q, out) ==
    IF q = <<>> THEN out
    ELSE CHOOSE w \in {var_search(t, r.q, r.out) :
                          r \in {var_children(t, q[Len(q)], 1, SubSeq(q, 1, Len(q) - 1), out)}} : TRUE

extract_from_var_declaration(t, decl_node, out) == var_search(t, <<decl_node>>, out)

extract_from_assignment(t, assign_node, out) ==
    LET l == child_by_field_name(t, assign_node, "left")
        r == child_by_field_name(t, assign_node, "right")
    IN  IF l # 0 /\ r # 0 /\ IsFunctionValue(t, r)
        THEN LET name == IF t[l].kind = "identifier" THEN node_text(t, l)
                         ELSE IF t[l].kind = "member_expression"
                                 /\ child_by_field_name(t, l, "property") # 0
                         THEN node_text(t, child_by_field_name(t, l, "property"))
                         ELSE <<"<","e","x","p","o","r","t","e","d",">">>
             IN  insert(out, name, stored_cfg(t, body_or_self(t, r)))
        ELSE out

\* the match on n.kind() in extract_from_export: the stack and the map after it
export_match(t, n, rest, out) ==
    LET kind == t[n].kind
    IN  IF kind = "function_declaration"
        THEN [q |-> rest, out |-> extract_function_declaration(t, n, out)]
        ELSE IF kind \in {"class_declaration", "class"}
        THEN [q |-> rest, out |-> extract_from_class(t, n, out)]
        ELSE IF kind \in {"lexical_declaration", "variable_declaration"}
        THEN [q |-> rest, out |-> extract_from_var_declaration(t, n, out)]
        ELSE IF kind = "assignment_expression"
        THEN [q |-> rest, out |-> extract_from_assignment(t, n, out)]
        ELSE IF kind \in {"arrow_function", "function_expression"}
        THEN [q |-> rest,
              out |-> insert(out, <<"d","e","f","a","u","l","t","_","e","x","p","o","r","t","@","b">> \o decimal(t[n].start), stored_cfg(t, body_or_self(t, n)))]
        ELSE [q |-> rest \o t[n].kids, out |-> out]

RECURSIVE export_search(_, _, _)
export_search(t, q, out) ==
    IF q = <<>> THEN out
    ELSE CHOOSE w \in {export_search(t, en.q, en.out) :
                          en \in {export_match(t, q[Len(q)], SubSeq(q, 1, Len(q) - 1), out)}} : TRUE

extract_from_export(t, export_node, out) == export_search(t, <<export_node>>, out)

\* the match on ch.kind() in extract_cfgs_from_tree
extract_child(t, ch, out) ==
    LET kind == t[ch].kind
    IN  IF kind = "function_declaration" THEN extract_function_declaration(t, ch, out)
        ELSE IF kind \in {"class_declaration", "class"} THEN extract_from_class(t, ch, out)
        ELSE IF kind = "export_statement" THEN extract_from_export(t, ch, out)
        ELSE IF kind \in {"lexical_declaration", "variable_declaration"}
        THEN extract_from_var_declaration(t, ch, out)
        ELSE out

RECURSIVE tree_children(_, _, _, _, _)
tree_children(t, n, i, stack, out) ==
    IF i > child_count(t, n) THEN [stack |-> stack, out |-> out]
    ELSE CHOOSE r \in {tree_children(t, n, i + 1, st, o) :
                          st \in {Append(stack, child(t, n, i))},
                          o \in {extract_child(t, child(t, n, i), out)}} : TRUE

RECURSIVE tree_walk(_, _, _)
tree_walk(t, stack, out) ==
    IF stack = <<>> THEN out
    ELSE CHOOSE w \in {tree_walk(t, r.stack, r.out) :
                          r \in {tree_children(t, stack[Len(stack)], 1,
                                                SubSeq(stack, 1, Len(stack) - 1), out)}} : TRUE

extract_cfgs_from_tree(t) == CHOOSE r \in {tree_walk(tt, <<1>>, EmptyMap) : tt \in {t}} : TRUE

(* ----------------------------- inputs -------------------------------- *)

MaxKids == 3

FileNames == {"foo_ts", "baz_ts", "a_ts", "b_ts", "c_ts", "login_ts", "spin_ts", "p_ts", "q_ts"}

TreeOfFile(f) ==
    CASE f = "foo_ts" -> Tree_foo_ts
      [] f = "baz_ts" -> Tree_baz_ts
      [] f = "a_ts" -> Tree_a_ts
      [] f = "b_ts" -> Tree_a_ts
      [] f = "login_ts" -> Tree_login_ts
      [] f = "spin_ts" -> Tree_spin_ts
      [] f = "p_ts" -> Tree_p_ts
      [] f = "q_ts" -> Tree_q_ts
      [] f = "c_ts" -> Tree_c_ts
      [] f = "xff_ts" -> Tree_spin_ts
      [] f = "xfe_ts" -> Tree_baz_ts
      [] f = "route_ts" -> Tree_route_ts
      [] f = "assign_ts" -> Tree_assign_ts
      [] f = "dup_ts" -> Tree_dup_ts

PathOfFile(f) ==
    CASE f = "foo_ts" -> Path_foo_ts
      [] f = "baz_ts" -> Path_baz_ts
      [] f = "a_ts" -> Path_a_ts
      [] f = "b_ts" -> Path_b_ts
      [] f = "login_ts" -> Path_login_ts
      [] f = "spin_ts" -> Path_spin_ts
      [] f = "p_ts" -> Path_p_ts
      [] f = "q_ts" -> Path_q_ts
      [] f = "c_ts" -> Path_c_ts
      [] f = "xff_ts" -> Path_xff_ts
      [] f = "xfe_ts" -> Path_xfe_ts
      [] f = "route_ts" -> <<"s","r","c","/","r","o","u","t","e",".","t","s">>
      [] f = "assign_ts" -> <<"s","r","c","/","a","s","s","i","g","n",".","t","s">>
      [] f = "dup_ts" -> <<"s","r","c","/","d","u","p",".","t","s">>

SeqsUpTo(S, n) == UNION {[1..k -> S] : k \in 0..n}

\* the function bodies the extractor hands to build_structured_cfg
FileBodies(f) ==
    {[src |-> "file", file |-> f, frs |-> <<>>, decl |-> n, body |-> body_or_self(TreeOfFile(f), n)] :
        n \in {k \in 1..Len(TreeOfFile(f)) : TreeOfFile(f)[k].kind = "function_declaration"}}

GeneratedBodies ==
    {[src |-> "gen", file |-> "", frs |-> frs, decl |-> 0, body |-> 1] : frs \in SeqsUpTo(FragNames, MaxKids)}

BodyInputs == (UNION {FileBodies(f) : f \in FileNames}) \cup GeneratedBodies

TreeOf(in) == IF in.src = "file" THEN TreeOfFile(in.file) ELSE body_tree(in.frs)

\* the name the CFG is stored under
NameOf(in) ==
    IF in.src = "file"
    THEN node_text(TreeOfFile(in.file), child_by_field_name(TreeOfFile(in.file), in.decl, "name"))
    ELSE L_anon

(* ------------------------- the flow aggregator ----------------------- *)

derive_kind(s, d) ==
    IF starts_with(s, K_NET) \/ starts_with(d, K_NET) THEN "Net"
    ELSE IF starts_with(s, K_DB) \/ starts_with(d, K_DB) THEN "Db"
    ELSE IF starts_with(s, K_AUTH) \/ starts_with(d, K_AUTH) \/ contains(s, K_USER_ENTRY) THEN "Auth"
    ELSE IF starts_with(s, K_CRYPTO) \/ starts_with(d, K_CRYPTO) THEN "Crypto"
    ELSE IF starts_with(s, K_SECRET) \/ starts_with(d, K_SECRET) THEN "Secret"
    ELSE IF starts_with(s, K_LOG) \/ starts_with(d, K_LOG) THEN "Log"
    ELSE IF starts_with(s, K_Loop) \/ s = d THEN "Loop"
    ELSE IF starts_with(d, K_Return) THEN "Return"
    ELSE IF starts_with(s, K_If) \/ starts_with(d, K_If) THEN "Branch"
    ELSE "Other"

\* {:?} of an EdgeKind
kind_debug(k) ==
    CASE k = "Branch" -> <<"B","r","a","n","c","h">>
      [] k = "Loop" -> <<"L","o","o","p">>
      [] k = "Return" -> <<"R","e","t","u","r","n">>
      [] k = "Net" -> <<"N","e","t">>
      [] k = "Db" -> <<"D","b">>
      [] k = "Auth" -> <<"A","u","t","h">>
      [] k = "Crypto" -> <<"C","r","y","p","t","o">>
      [] k = "Secret" -> <<"S","e","c","r","e","t">>
      [] k = "Log" -> <<"L","o","g">>
      [] k = "Other" -> <<"O","t","h","e","r">>

\* format!("{}|{:?}|{}|{}", func, kind, s, d)
signature(func, kind, s, d) == func \o <<"|">> \o kind_debug(kind) \o <<"|">> \o s \o <<"|">> \o d

\* the sensitive-term test without the lower-casing
is_sensitive_case_exact(s, d) ==
    LET l == s \o <<" ">> \o d
    IN  \E term \in SensitiveTerms : contains(l, term)

is_sensitive(s, d) ==
    LET l == to_lowercase(s \o <<" ">> \o d)
    IN  \E term \in SensitiveTerms : contains(l, term)

\* the running state of to_security_flow
InitAcc == [edges_out |-> <<>>, seen |-> {}, boundary |-> 0, pii |-> 0]

\* boundary counted for every sensitive edge as well
count_edge_sensitive_boundary(acc, func, s, d) ==
    LET kind == derive_kind(s, d)
        sig  == signature(func, kind, s, d)
    IN  IF sig \in acc.seen THEN acc
        ELSE LET sensitive == is_sensitive(s, d)
             IN  [edges_out |-> Append(acc.edges_out,
                                  [func |-> func, src |-> s, dst |-> d, kind |-> kind, sensitive |-> sensitive]),
                  seen      |-> acc.seen \cup {sig},
                  boundary  |-> acc.boundary + (IF kind = "Net" \/ sensitive THEN 1 ELSE 0),
                  pii       |-> acc.pii + (IF sensitive THEN 1 ELSE 0)]

\* the body of the loop over the edges of one function's CFG
count_edge(acc, func, s, d) ==
    LET kind == derive_kind(s, d)
        sig  == signature(func, kind, s, d)
    IN  IF sig \in acc.seen THEN acc
        ELSE LET sensitive == is_sensitive(s, d)
             IN  [edges_out |-> Append(acc.edges_out,
                                  [func |-> func, src |-> s, dst |-> d, kind |-> kind, sensitive |-> sensitive]),
                  seen      |-> acc.seen \cup {sig},
                  boundary  |-> acc.boundary + (IF kind = "Net" THEN 1 ELSE 0),
                  pii       |-> acc.pii + (IF sensitive THEN 1 ELSE 0)]

flow_edge(acc, func, c, e) == count_edge(acc, func, label_at(c.nodes, e[1]), label_at(c.nodes, e[2]))

RECURSIVE sum_functions(_, _)
sum_functions(all, files) ==
    IF files = {} THEN 0
    ELSE LET f == CHOOSE x \in files : TRUE
         IN  Cardinality(DOMAIN all[f]) + sum_functions(all, files \ {f})

\* functions counted from the edges collected
make_flow_functions_from_edges(all, acc) ==
    [index |-> [functions          |-> Cardinality({acc.edges_out[i].func : i \in 1..Len(acc.edges_out)}),
                edges              |-> Len(acc.edges_out),
                boundary_crossings |-> acc.boundary,
                pii_edges          |-> acc.pii],
     edges |-> acc.edges_out]

\* SecurityFlow { index: SecIndex { ... }, edges: edges_out }
make_flow(all, acc) ==
    [index |-> [functions          |-> sum_functions(all, DOMAIN all),
                edges              |-> Len(acc.edges_out),
                boundary_crossings |-> acc.boundary,
                pii_edges          |-> acc.pii],
     edges |-> acc.edges_out]

\* The iteration order of the two nested HashMaps is not fixed: an order is
\* a sequence of <<file, function>> pairs, the functions of a file together.
Perms(S) == {p \in [1..Cardinality(S) -> S] : \A i, j \in 1..Cardinality(S) : p[i] = p[j] => i = j}

RECURSIVE concat_all(_)
concat_all(ss) == IF ss = <<>> THEN <<>> ELSE Head(ss) \o concat_all(Tail(ss))

FuncOrders(all, f) == {[i \in 1..Len(p) |-> <<f, p[i]>>] : p \in Perms(DOMAIN all[f])}

Orders(all) ==
    {concat_all([i \in 1..Len(fp) |-> g[fp[i]]]) :
        fp \in Perms(DOMAIN all),
        g \in {h \in [DOMAIN all -> UNION {FuncOrders(all, f) : f \in DOMAIN all}] :
                  \A f \in DOMAIN all : h[f] \in FuncOrders(all, f)}}

RECURSIVE fold_edges(_, _, _, _)
fold_edges(acc, func, c, i) ==
    IF i > Len(c.edges) THEN acc
    ELSE CHOOSE r \in {fold_edges(a, func, c, i + 1) : a \in {flow_edge(acc, func, c, c.edges[i])}} : TRUE

RECURSIVE fold_functions(_, _, _, _)
fold_functions(acc, all, order, i) ==
    IF i > Len(order) THEN acc
    ELSE CHOOSE r \in {fold_functions(a, all, order, i + 1) :
                          a \in {fold_edges(acc, order[i][2], all[order[i][1]][order[i][2]], 1)}} : TRUE

to_security_flow(all, order) ==
    CHOOSE r \in {make_flow(all, a) : a \in {fold_functions(InitAcc, all, order, 1)}} : TRUE

(* ---------------- to_security_flow, edge by edge, and a rerun -------- *)

MaxFiles == 2

\* the sources a per-file map handed to to_security_flow is built from
FlowFiles == {"a_ts", "b_ts", "login_ts", "spin_ts", "p_ts", "q_ts", "route_ts"}

\* the bytes of a file name that are not UTF-8
InvalidBytes == {"0xFF", "0xFE"}

\* path.display().to_string(): a byte that is not UTF-8 is shown as U+FFFD
display(path) == [i \in 1..Len(path) |-> IF path[i] \in InvalidBytes THEN "U+FFFD" ELSE path[i]]

\* Option<(String, HashMap<String, SimpleCfg>)>
extract_cfgs_from_ts_file(f, readable) ==
    IF ~readable THEN [tag |-> "None", file |-> <<>>, cfgs |-> EmptyMap]
    ELSE [tag |-> "Some", file |-> display(PathOfFile(f)), cfgs |-> extract_cfgs_from_tree(TreeOfFile(f))]

\* the per-file map after the join when the workers of fs succeeded
MapOf(fs) ==
    [p \in {display(PathOfFile(f)) : f \in fs} |->
        extract_cfgs_from_tree(TreeOfFile(CHOOSE f \in fs : display(PathOfFile(f)) = p))]

PerFileMaps == {MapOf(fs) : fs \in {x \in SUBSET FlowFiles : Cardinality(x) <= MaxFiles}}

(* --------------------------- handle_generate ------------------------- *)

\* the .ts files under the directory
GenFiles == {"a_ts", "b_ts", "c_ts", "xff_ts", "xfe_ts", "assign_ts", "dup_ts"}

\* collect_ts_files: at most MaxFiles of them, in the order read_dir gives
Discoveries ==
    {s \in SeqsUpTo(GenFiles, MaxFiles) : \A i, j \in 1..Len(s) : s[i] = s[j] => i = j}

Unspawned == [tag |-> "Unspawned", file |-> <<>>, cfgs |-> EmptyMap]

Running == [tag |-> "Running", file |-> <<>>, cfgs |-> EmptyMap]

Panicked == [tag |-> "Panic", file |-> <<>>, cfgs |-> EmptyMap]

\* what a worker can end with: Some((file, cfgs)), None, or a panic
WorkerOutcomes(f) ==
    {extract_cfgs_from_ts_file(f, TRUE), extract_cfgs_from_ts_file(f, FALSE), Panicked}

\* a join that returns whether or not the thread has ended
join_ready_always(r) == TRUE

\* JoinHandle::join blocks until the thread has ended
join_ready(r) == r.tag \in {"Some", "None", "Panic"}

\* the match on handle.join()
join_result(m, r) ==
    IF r.tag = "Some" THEN insert(m, r.file, r.cfgs) ELSE m

L_security_flow_json == <<"s","e","c","u","r","i","t","y","-","f","l","o","w",".","j","s","o","n">>

L_index_txt == <<"s","e","c","u","r","i","t","y","-","f","l","o","w",".","i","n","d","e","x",".","t","x","t">>

(* ------------------------------ state -------------------------------- *)

\* build_structured_cfg on one function body: the input, the traversal stack,
\* the node whose children are being visited and the child index, the
\* builder's locals, the position, the CFG built and the extractor's map
VARIABLES input, stack, cur, ci, b, pc, cfg, result

cfgVars == <<input, stack, cur, ci, b, pc, cfg, result>>

\* to_security_flow: the per-file map, the order its maps are iterated in,
\* the position in it, the accumulated locals, and the flows of two calls
VARIABLES all, order, oi, ei, acc, fpc, flow1, flow2

flowVars == <<all, order, oi, ei, acc, fpc, flow1, flow2>>

\* handle_generate: the output argument, the discovered files, the workers
\* spawned, what each worker returned, the handles joined, all_cfgs, the
\* files written and the aggregated flow
VARIABLES output, files, spawned, ret, joined, all_cfgs, artifacts, flow, hpc

genVars == <<output, files, spawned, ret, joined, all_cfgs, artifacts, flow, hpc>>

vars == <<cfgVars, flowVars, genVars>>

NoCfg == [nodes |-> <<>>, edges |-> <<>>]

(* ------------------- build_structured_cfg, step by step -------------- *)

CfgInit ==
    /\ input \in BodyInputs
    /\ stack = <<input.body>>
    /\ cur = 0
    /\ ci = 0
    /\ b = InitBuilder
    /\ pc = "walk"
    /\ cfg = NoCfg
    /\ result = EmptyMap

\* while let Some(n) = stack.pop()
PopNode ==
    /\ pc = "walk" /\ cur = 0 /\ stack # <<>>
    /\ LET n == stack[Len(stack)]
       IN  /\ stack' = SubSeq(stack, 1, Len(stack) - 1)
           /\ IF child_count(TreeOf(input), n) = 0
              THEN cur' = 0 /\ ci' = 0
              ELSE cur' = n /\ ci' = 1
    /\ UNCHANGED <<input, b, pc, cfg, result, flowVars, genVars>>

\* one iteration of for i in 0..n.child_count()
VisitChild ==
    /\ pc = "walk" /\ cur # 0
    /\ LET t  == TreeOf(input)
           ch == child(t, cur, ci)
       IN  /\ stack' = Append(stack, ch)
           /\ b' = visit_child(t, b, ch)
           /\ IF ci = child_count(t, cur)
              THEN cur' = 0 /\ ci' = 0
              ELSE cur' = cur /\ ci' = ci + 1
    /\ UNCHANGED <<input, pc, cfg, result, flowVars, genVars>>

\* edges.push((last, exit)); SimpleCfg { nodes, edges }
Finish ==
    /\ pc = "walk" /\ cur = 0 /\ stack = <<>>
    /\ cfg' = finish_cfg(b)
    /\ pc' = "built"
    /\ UNCHANGED <<input, stack, cur, ci, b, result, flowVars, genVars>>

Dedupe ==
    /\ pc = "built"
    /\ cfg' = dedupe_cfg_edges(cfg)
    /\ pc' = "deduped"
    /\ UNCHANGED <<input, stack, cur, ci, b, result, flowVars, genVars>>

\* result.insert(name, cfg)
Store ==
    /\ pc = "deduped"
    /\ result' = insert(result, NameOf(input), cfg)
    /\ pc' = "stored"
    /\ UNCHANGED <<input, stack, cur, ci, b, cfg, flowVars, genVars>>


NoFlow == [index |-> [functions |-> 0, edges |-> 0, boundary_crossings |-> 0, pii_edges |-> 0], edges |-> <<>>]

FlowInit ==
    /\ all \in PerFileMaps
    /\ order \in Orders(all)
    /\ oi = 1
    /\ ei = 1
    /\ acc = InitAcc
    /\ fpc = "edges"
    /\ flow1 = NoFlow
    /\ flow2 = NoFlow

\* one iteration of for (si, di) in &cfg.edges
AggEdge ==
    /\ fpc = "edges" /\ oi <= Len(order)
    /\ LET func == order[oi][2]
           c    == all[order[oi][1]][func]
       IN  /\ acc' = flow_edge(acc, func, c, c.edges[ei])
           /\ IF ei = Len(c.edges)
              THEN oi' = oi + 1 /\ ei' = 1
              ELSE oi' = oi /\ ei' = ei + 1
    /\ UNCHANGED <<all, order, fpc, flow1, flow2, cfgVars, genVars>>

\* SecurityFlow { index, edges }
AggFinish ==
    /\ fpc = "edges" /\ oi > Len(order)
    /\ flow1' = make_flow(all, acc)
    /\ fpc' = "returned"
    /\ UNCHANGED <<all, order, oi, ei, acc, flow2, cfgVars, genVars>>

\* a second call on the same map, iterated in any order
Rerun ==
    /\ fpc = "returned"
    /\ \E o \in Orders(all) : flow2' = to_security_flow(all, o)
    /\ fpc' = "compared"
    /\ UNCHANGED <<all, order, oi, ei, acc, flow1, cfgVars, genVars>>


GenInit ==
    /\ output \in {"none", "not_a_dir", "no_results_dir", "dir"}
    /\ files \in Discoveries
    /\ spawned = 0
    /\ ret = [f \in GenFiles |-> Unspawned]
    /\ joined = 0
    /\ all_cfgs = EmptyMap
    /\ artifacts = {}
    /\ flow = NoFlow
    /\ hpc = "start"

\* the early returns, and the collection of the files
Start ==
    /\ hpc = "start"
    /\ hpc' = IF output = "dir" THEN "run" ELSE "returned"
    /\ UNCHANGED <<output, files, spawned, ret, joined, all_cfgs, artifacts, flow, cfgVars, flowVars>>

\* handles.push(std::thread::spawn(...))
SpawnWorker ==
    /\ hpc = "run" /\ spawned < Len(files)
    /\ ret' = [ret EXCEPT ![files[spawned + 1]] = Running]
    /\ spawned' = spawned + 1
    /\ UNCHANGED <<output, files, joined, all_cfgs, artifacts, flow, hpc, cfgVars, flowVars>>

\* a worker thread runs extract_cfgs_from_ts_file to its end
WorkerFinish ==
    /\ \E f \in GenFiles :
          /\ ret[f].tag = "Running"
          /\ \E r \in WorkerOutcomes(f) : ret' = [ret EXCEPT ![f] = r]
    /\ UNCHANGED <<output, files, spawned, joined, all_cfgs, artifacts, flow, hpc, cfgVars, flowVars>>

\* one iteration of for handle in handles
Join ==
    /\ hpc = "run" /\ spawned = Len(files) /\ joined < Len(files)
    /\ join_ready(ret[files[joined + 1]])
    /\ all_cfgs' = join_result(all_cfgs, ret[files[joined + 1]])
    /\ joined' = joined + 1
    /\ UNCHANGED <<output, files, spawned, ret, artifacts, flow, hpc, cfgVars, flowVars>>

\* the per-file .cfg.json artifacts
WriteCfgs ==
    /\ hpc = "run" /\ spawned = Len(files) /\ joined = Len(files)
    /\ artifacts' = artifacts \cup DOMAIN all_cfgs
    /\ hpc' = "aggregate"
    /\ UNCHANGED <<output, files, spawned, ret, joined, all_cfgs, flow, cfgVars, flowVars>>

\* to_security_flow(&all_cfgs), security-flow.json and the index file
Aggregate ==
    /\ hpc = "aggregate"
    /\ \E o \in Orders(all_cfgs) : flow' = to_security_flow(all_cfgs, o)
    /\ artifacts' = artifacts \cup {L_security_flow_json, L_index_txt}
    /\ hpc' = "done"
    /\ UNCHANGED <<output, files, spawned, ret, joined, all_cfgs, cfgVars, flowVars>>


(* -------------------------- specifications --------------------------- *)

CfgIdle ==
    /\ input = [src |-> "gen", file |-> "", frs |-> <<>>, decl |-> 0, body |-> 1]
    /\ stack = <<>> /\ cur = 0 /\ ci = 0 /\ b = InitBuilder
    /\ pc = "idle" /\ cfg = NoCfg /\ result = EmptyMap

FlowIdle ==
    /\ all = EmptyMap /\ order = <<>> /\ oi = 1 /\ ei = 1 /\ acc = InitAcc
    /\ fpc = "idle" /\ flow1 = NoFlow /\ flow2 = NoFlow

GenIdle ==
    /\ output = "none" /\ files = <<>> /\ spawned = 0 /\ ret = [f \in GenFiles |-> Unspawned]
    /\ joined = 0 /\ all_cfgs = EmptyMap /\ artifacts = {} /\ flow = NoFlow /\ hpc = "idle"

\* build_structured_cfg, de-duplication and storage of one function body
Init == CfgInit /\ FlowIdle /\ GenIdle

Next == PopNode \/ VisitChild \/ Finish \/ Dedupe \/ Store

Spec == Init /\ [][Next]_vars

\* to_security_flow on a per-file map
InitFlow == FlowInit /\ CfgIdle /\ GenIdle

NextFlow == AggEdge \/ AggFinish \/ Rerun

SpecFlow == InitFlow /\ [][NextFlow]_vars

\* handle_generate with its worker threads
InitGen == GenInit /\ CfgIdle /\ FlowIdle

NextGen == Start \/ SpawnWorker \/ WorkerFinish \/ Join \/ WriteCfgs \/ Aggregate

SpecGen == InitGen /\ [][NextGen]_vars

\* the step-by-step build agrees with the builder the extractor calls
StepwiseAgrees ==
    pc = "stored" => cfg = stored_cfg(TreeOf(input), input.body)

\* the edge-by-edge aggregation agrees with to_security_flow
FlowStepwiseAgrees ==
    fpc \in {"returned", "compared"} => flow1 = to_security_flow(all, order)

(* ============================ properties ============================= *)

Range(s) == {s[i] : i \in 1..Len(s)}

WellFormed(nodes, edges) ==
    /\ Len(nodes) >= 2
    /\ label_at(nodes, 0) = L_Entry
    /\ label_at(nodes, 1) = L_Exit
    /\ \A i \in 1..Len(edges) :
          /\ edges[i][1] >= 0 /\ edges[i][1] < Len(nodes)
          /\ edges[i][2] >= 0 /\ edges[i][2] < Len(nodes)

\* C1: at every step of the traversal, in the finished CFG and in every CFG
\* stored under a name, node 0 is "Entry", node 1 is "Exit" and both
\* endpoints of every edge are indices of nodes.
C1_WellFormed ==
    /\ WellFormed(b.nodes, b.edges)
    /\ pc # "walk" => WellFormed(cfg.nodes, cfg.edges)
    /\ \A k \in DOMAIN result : WellFormed(result[k].nodes, result[k].edges)

C1_Witness ==
    /\ pc = "stored"
    /\ \E k \in DOMAIN result : Len(result[k].nodes) >= 4 /\ Len(result[k].edges) >= 4

NoDupEdges(es) == \A i, j \in 1..Len(es) : es[i] = es[j] => i = j

FirstIdx(es, e) == CHOOSE i \in 1..Len(es) : es[i] = e /\ \A j \in 1..(i - 1) : es[j] # e

\* C2: the de-duplication step leaves no two equal (source, destination)
\* pairs, keeps every pair that was there, keeps them in the order of their
\* first occurrence, and a second pass over its result changes nothing.
C2_Dedupe ==
    [][pc = "built" =>
          /\ cfg'.nodes = cfg.nodes
          /\ NoDupEdges(cfg'.edges)
          /\ Range(cfg'.edges) = Range(cfg.edges)
          /\ \A i, j \in 1..Len(cfg'.edges) :
                i < j => FirstIdx(cfg.edges, cfg'.edges[i]) < FirstIdx(cfg.edges, cfg'.edges[j])
          /\ dedupe_cfg_edges(cfg') = cfg']_cfgVars

\* a duplicate pair was there and has been removed
C2_Witness ==
    /\ pc = "deduped"
    /\ Len(cfg.edges) < Len(b.edges) + 1
    /\ Len(cfg.edges) >= 4

\* the labels push_tag_node is called with while child ch is visited, in order
TagAttempts(t, ch) ==
    (IF t[ch].kind = "call_expression" /\ classify_call(t, ch) # "None"
     THEN <<tag_prefix(classify_call(t, ch)) \o L_ColonSp \o snippet(t, ch)>> ELSE <<>>)
    \o (IF t[ch].kind \in {"member_expression", "call_expression", "identifier"} /\ is_secretish(t, ch)
        THEN <<L_SECRET \o snippet(t, ch)>> ELSE <<>>)
    \o (IF t[ch].kind = "decorator"
           /\ \E d \in RouteDecorators : starts_with(to_lowercase(snippet(t, ch)), d)
        THEN <<L_UserEntry>> ELSE <<>>)
    \o (IF t[ch].kind = "decorator"
           /\ (contains(to_lowercase(snippet(t, ch)), T_useguards)
               \/ contains(to_lowercase(snippet(t, ch)), T_auth))
        THEN <<L_AUTH \o snippet(t, ch)>> ELSE <<>>)

IsStructural(t, ch) ==
    t[ch].kind \in {"if_statement", "for_statement", "while_statement", "return_statement"}

\* C3: a visit that appends one tag label: if the label is that of
\* nodes[last], nodes, edges and last stay as they are; otherwise (also when
\* an earlier node already has the label) one node and the edge from last to
\* it are added and last moves to it.
C3_RepeatGuard ==
    [][(pc = "walk" /\ cur # 0
        /\ ~IsStructural(TreeOf(input), child(TreeOf(input), cur, ci))
        /\ Len(TagAttempts(TreeOf(input), child(TreeOf(input), cur, ci))) = 1)
       => LET l == TagAttempts(TreeOf(input), child(TreeOf(input), cur, ci))[1]
          IN  IF label_at(b.nodes, b.last) = l
              THEN b' = b
              ELSE /\ b'.nodes = Append(b.nodes, l)
                   /\ b'.edges = Append(b.edges, <<b.last, Len(b.nodes)>>)
                   /\ b'.last = Len(b.nodes)]_cfgVars

LabelCount(nodes, l) == Cardinality({i \in 1..Len(nodes) : nodes[i] = l})

L_LogCall == <<"L","O","G",":"," ","c","o","n","s","o","l","e",".","l","o","g","(","i",")">>

\* two adjacent identical calls gave one node; the same call after another
\* node gave a second one
C3_Witness ==
    /\ pc = "stored"
    /\ \/ input.frs = <<"log", "log">> /\ LabelCount(cfg.nodes, L_LogCall) = 1
       \/ input.frs = <<"log", "return", "log">> /\ LabelCount(cfg.nodes, L_LogCall) = 2

RECURSIVE Descendants(_, _)
Descendants(t, n) == Range(t[n].kids) \cup UNION {Descendants(t, k) : k \in Range(t[n].kids)}

LoopStatements(t, body) ==
    {n \in Descendants(t, body) : t[n].kind \in {"for_statement", "while_statement"}}

LoopNodes(nodes) == {k \in 0..(Len(nodes) - 1) : starts_with(label_at(nodes, k), L_Loop)}

\* C4: the stored CFG has one "Loop: ..." node per for/while statement of the
\* body, labelled with the statement's snippet, and every such node k has
\* the edges (k, k) and (k, 1).
C4_LoopEdges ==
    pc = "stored" =>
        LET t == TreeOf(input)
            c == result[NameOf(input)]
        IN  /\ Cardinality(LoopNodes(c.nodes)) = Cardinality(LoopStatements(t, input.body))
            /\ \A n \in LoopStatements(t, input.body) :
                  \E k \in LoopNodes(c.nodes) : label_at(c.nodes, k) = L_Loop \o snippet(t, n)
            /\ \A k \in LoopNodes(c.nodes) :
                  <<k, k>> \in Range(c.edges) /\ <<k, exit>> \in Range(c.edges)

\* a loop with a statement before it and one after it
C4_Witness ==
    /\ pc = "stored"
    /\ input.frs \in {<<"return", "while", "log">>, <<"secret", "loop", "if">>}
    /\ Cardinality(LoopNodes(result[NameOf(input)].nodes)) = 1


(* --------------------------- handle_generate ------------------------- *)

Workers == 1..Len(files)

Ended == {"Some", "None", "Panic"}

\* C5: once a .cfg.json or the report has been written, or the aggregate is
\* being or has been computed, every discovered file's worker has been
\* spawned, has ended and has been joined; the aggregate is the
\* to_security_flow of the map as the last join left it.
C5_JoinBarrier ==
    /\ (hpc \in {"aggregate", "done"} \/ artifacts # {} \/ flow # NoFlow) =>
          /\ spawned = Len(files)
          /\ joined = Len(files)
          /\ \A i \in Workers : ret[files[i]].tag \in Ended
    /\ hpc = "done" => \E o \in Orders(all_cfgs) : flow = to_security_flow(all_cfgs, o)

\* two workers, both ended with a result, and the report written
C5_Witness ==
    /\ hpc = "done"
    /\ Len(files) = 2
    /\ \A i \in Workers : ret[files[i]].tag = "Some"
    /\ L_security_flow_json \in artifacts
    /\ flow.index.edges > 0

Succeeded == {i \in Workers : ret[files[i]].tag = "Some"}

\* C6: after the join the per-file map has exactly one entry for each worker
\* that returned Some, under the path that worker returned and holding its
\* CFGs, and no entry for a worker that returned None or panicked; the run
\* goes on to compute and write the aggregate of these entries.
C6_FailureIsolation ==
    /\ hpc \in {"aggregate", "done"} =>
          /\ Cardinality(DOMAIN all_cfgs) = Cardinality(Succeeded)
          /\ \A i \in Succeeded :
                /\ ret[files[i]].file \in DOMAIN all_cfgs
                /\ all_cfgs[ret[files[i]].file] = ret[files[i]].cfgs
          /\ \A k \in DOMAIN all_cfgs : \E i \in Succeeded : ret[files[i]].file = k
    /\ hpc = "aggregate" => Orders(all_cfgs) # {}
    /\ hpc = "done" =>
          /\ {L_security_flow_json, L_index_txt} \subseteq artifacts
          /\ \E o \in Orders(all_cfgs) : flow = to_security_flow(all_cfgs, o)

\* no two workers that returned Some returned the same path string
DistinctKeys ==
    \A i, j \in Succeeded : ret[files[i]].file = ret[files[j]].file => i = j

\* the isolation of C6 in the runs where the returned paths differ
FailureIsolationDistinctKeys == DistinctKeys => C6_FailureIsolation

\* a panicked and a successful worker in one finished run
FailureIsolationReached ==
    /\ hpc = "done"
    /\ \E i, j \in Workers : ret[files[i]].tag = "Panic" /\ ret[files[j]].tag = "Some"

L_handler == <<"h","a","n","d","l","e","r">>

HasSecretNode(c) == \E i \in 1..Len(c.nodes) : starts_with(c.nodes[i], K_SECRET)

MentionsSecret(s, d) == contains(to_lowercase(s \o <<" ">> \o d), T_secret)

\* the edges of the CFGs of one file that mention "secret"
SecretEdgesOf(m) ==
    UNION {{<<fn, k>> : k \in {x \in 1..Len(m[fn].edges) :
                                 MentionsSecret(label_at(m[fn].nodes, m[fn].edges[x][1]),
                                                label_at(m[fn].nodes, m[fn].edges[x][2]))}} :
           fn \in DOMAIN m}

\* their (function, source label, destination label) triples
SecretSigsOf(m) ==
    {<<e[1], label_at(m[e[1]].nodes, m[e[1]].edges[e[2]][1]),
             label_at(m[e[1]].nodes, m[e[1]].edges[e[2]][2])>> : e \in SecretEdgesOf(m)}

\* a finished run over two files with different paths, each defining the one
\* function handler, whose CFG has a "SECRET:" node
TwoHandlerFiles ==
    /\ hpc = "done"
    /\ Len(files) = 2
    /\ \A i \in Workers :
          /\ ret[files[i]].tag = "Some"
          /\ DOMAIN ret[files[i]].cfgs = {L_handler}
          /\ HasSecretNode(ret[files[i]].cfgs[L_handler])
    /\ ret[files[1]].file # ret[files[2]].file

\* C8 (as amended): the two files give two entries of the per-file map, under
\* their two paths, each the file's own CFGs with a "SECRET:" node in
\* handler's; index.functions is 2; index.pii_edges is the number of distinct
\* (function, source label, destination label) triples among the
\* secret-mentioning edges of the two files, an edge of the second file that
\* repeats a triple of the first not being counted again.
C8_TwoHandlers ==
    TwoHandlerFiles =>
        LET m1 == ret[files[1]].cfgs
            m2 == ret[files[2]].cfgs
        IN  /\ DOMAIN all_cfgs = {ret[files[1]].file, ret[files[2]].file}
            /\ all_cfgs[ret[files[1]].file] = m1
            /\ all_cfgs[ret[files[2]].file] = m2
            /\ HasSecretNode(all_cfgs[ret[files[1]].file][L_handler])
            /\ HasSecretNode(all_cfgs[ret[files[2]].file][L_handler])
            /\ flow.index.functions = 2
            /\ flow.index.pii_edges = Cardinality(SecretSigsOf(m1) \cup SecretSigsOf(m2))
            /\ (m1 = m2 => flow.index.pii_edges = Cardinality(SecretEdgesOf(m1)))

\* C8 as stated: index.functions is 2 and index.pii_edges is the number of
\* secret-mentioning edges of the first file plus that of the second.
C8_Original ==
    TwoHandlerFiles =>
        /\ flow.index.functions = 2
        /\ flow.index.pii_edges = Cardinality(SecretEdgesOf(ret[files[1]].cfgs))
                                  + Cardinality(SecretEdgesOf(ret[files[2]].cfgs))

\* src/a.ts and src/b.ts, the same handler in both
C8_Witness ==
    /\ TwoHandlerFiles
    /\ ret[files[1]].cfgs = ret[files[2]].cfgs
    /\ flow.index.pii_edges >= 2

(* ---------------------------- to_security_flow ----------------------- *)

EdgeSig(e) == <<e.func, e.kind, e.src, e.dst>>

\* the (function, derived kind, source label, destination label) of every
\* input edge, in the order the edges are met
InputSigs ==
    concat_all([i \in 1..Len(order) |->
        LET fn == order[i][2]
            c  == all[order[i][1]][fn]
        IN  [k \in 1..Len(c.edges) |->
                <<fn,
                  derive_kind(label_at(c.nodes, c.edges[k][1]), label_at(c.nodes, c.edges[k][2])),
                  label_at(c.nodes, c.edges[k][1]),
                  label_at(c.nodes, c.edges[k][2])>>]])

FirstOccurrences(sq) ==
    LET keep == {i \in 1..Len(sq) : \A j \in 1..(i - 1) : sq[j] # sq[i]}
        RECURSIVE pick(_, _)
        pick(i, out) ==
            IF i > Len(sq) THEN out
            ELSE pick(i + 1, IF i \in keep THEN Append(out, sq[i]) ELSE out)
    IN  pick(1, <<>>)

\* C7: the edge list returned holds, in the order met, exactly the first
\* occurrence of every (function, kind, source label, destination label)
\* among the input edges: no two of its edges have the same four, and none of
\* the four-tuples of the input is missing.
C7_UniqueSignatures ==
    fpc \in {"returned", "compared"} =>
        [i \in 1..Len(flow1.edges) |-> EdgeSig(flow1.edges[i])] = FirstOccurrences(InputSigs)

\* C9: two calls on the same per-file map that iterate it in different
\* orders return the same four index counts and the same set of edges
\* (function, kind, source label, destination label, sensitive).
C9_Determinism ==
    fpc = "compared" =>
        /\ flow1.index = flow2.index
        /\ Range(flow1.edges) = Range(flow2.edges)

\* no label of the per-file map contains the separator of the signature string
NoBarInLabels ==
    \A f \in DOMAIN all : \A fn \in DOMAIN all[f] :
        \A i \in 1..Len(all[f][fn].nodes) : "|" \notin Range(all[f][fn].nodes[i])

\* C7 and C9 on the maps whose labels hold no "|"
UniqueAndDeterministicWithoutBar ==
    NoBarInLabels => C7_UniqueSignatures /\ C9_Determinism

\* the index counts of two calls agree on every map
CountsAgree == fpc = "compared" => flow1.index = flow2.index

MentionsPassword(s, d) == contains(to_lowercase(s \o <<" ">> \o d), T_password)

PasswordEdges(es) == {i \in 1..Len(es) : MentionsPassword(es[i].src, es[i].dst)}

L_foo == <<"f","o","o">>

L_IfFoo == L_If \o <<"i","f"," ","(","x"," ",">"," ","1","0",")"," ","{">>

L_ReturnThen == L_Return \o <<"r","e","t","u","r","n"," ","x"," ","*"," ","2",";">>

L_ReturnElse == L_Return \o <<"r","e","t","u","r","n"," ","x",";">>

\* the CFG stored for foo, step by step and as extract_cfgs_from_tree gives it
FooStored == pc = "stored" /\ input.src = "file" /\ input.file = "foo_ts"

\* C11 (as amended): the CFG stored for foo has the nodes Entry, Exit, the If
\* node, the Return node of the else-branch (return x), the Return node of
\* the then-branch (return x * 2), in this order; it has at least 4 edges and
\* its final edge goes into Exit.
C11_FooCfg ==
    FooStored =>
        /\ result[L_foo].nodes = <<L_Entry, L_Exit, L_IfFoo, L_ReturnElse, L_ReturnThen>>
        /\ Len(result[L_foo].edges) >= 4
        /\ result[L_foo].edges[Len(result[L_foo].edges)][2] = exit
        /\ extract_cfgs_from_tree(Tree_foo_ts)[L_foo] = result[L_foo]

\* C11 as stated: the Return node of the then-branch comes before that of
\* the else-branch.
C11_Original ==
    FooStored =>
        /\ result[L_foo].nodes = <<L_Entry, L_Exit, L_IfFoo, L_ReturnThen, L_ReturnElse>>
        /\ Len(result[L_foo].edges) >= 4
        /\ result[L_foo].edges[Len(result[L_foo].edges)][2] = exit

C11_Witness ==
    /\ FooStored
    /\ Len(result[L_foo].nodes) = 5
    /\ result[L_foo].edges[Len(result[L_foo].edges)] = <<4, exit>>

(* --------------------------- kind derivation ------------------------- *)

\* neither label starts with "NET:" or "DB:"
NoEarlierRule(s, d) ==
    /\ ~starts_with(s, K_NET) /\ ~starts_with(d, K_NET)
    /\ ~starts_with(s, K_DB) /\ ~starts_with(d, K_DB)

\* C12: every edge collected for which neither label starts with "NET:" or
\* "DB:" and whose source label or destination label contains "USER ENTRY"
\* has kind Auth.
C12_UserEntryAuth ==
    \A i \in 1..Len(acc.edges_out) :
        LET e == acc.edges_out[i]
        IN  (NoEarlierRule(e.src, e.dst)
             /\ (contains(e.src, K_USER_ENTRY) \/ contains(e.dst, K_USER_ENTRY)))
            => e.kind = "Auth"

\* the same for the source label alone
UserEntrySourceAuth ==
    \A i \in 1..Len(acc.edges_out) :
        LET e == acc.edges_out[i]
        IN  (NoEarlierRule(e.src, e.dst) /\ contains(e.src, K_USER_ENTRY)) => e.kind = "Auth"

\* an edge out of a "USER ENTRY" node has been collected
UserEntrySourceReached ==
    \E i \in 1..Len(acc.edges_out) : contains(acc.edges_out[i].src, K_USER_ENTRY)

(* --------------------------- entity extractor ------------------------ *)

\* the assignment_expression nodes of a tree whose right-hand side is a
\* function or arrow-function expression
FunctionAssignments(t) ==
    {n \in 1..Len(t) : /\ t[n].kind = "assignment_expression"
                       /\ child_by_field_name(t, n, "left") # 0
                       /\ child_by_field_name(t, n, "right") # 0
                       /\ IsFunctionValue(t, child_by_field_name(t, n, "right"))}

\* the name such an assignment is to be stored under
AssignedName(t, n) ==
    LET l == child_by_field_name(t, n, "left")
    IN  IF t[l].kind = "identifier" THEN node_text(t, l)
        ELSE IF t[l].kind = "member_expression" /\ child_by_field_name(t, l, "property") # 0
        THEN node_text(t, child_by_field_name(t, l, "property"))
        ELSE <<"<","e","x","p","o","r","t","e","d",">">>

\* the nodes below an export_statement
Exported(t) == UNION {Descendants(t, n) : n \in {k \in 1..Len(t) : t[k].kind = "export_statement"}}

\* C13: the map a worker returns for a file has an entry for every
\* assignment_expression of the file's tree whose right-hand side is a
\* function or arrow-function expression, inside an export statement or not,
\* under the left-hand identifier, the property name, or "<exported>".
C13_AssignmentsExtracted ==
    \A f \in GenFiles :
        ret[f].tag = "Some" =>
            \A n \in FunctionAssignments(TreeOfFile(f)) :
                AssignedName(TreeOfFile(f), n) \in DOMAIN ret[f].cfgs

\* the same for the assignments below an export statement
ExportedAssignmentsExtracted ==
    \A f \in GenFiles :
        ret[f].tag = "Some" =>
            \A n \in FunctionAssignments(TreeOfFile(f)) \cap Exported(TreeOfFile(f)) :
                AssignedName(TreeOfFile(f), n) \in DOMAIN ret[f].cfgs

\* a worker has returned the map of a file with an exported assignment
ExportedAssignmentReached ==
    \E f \in GenFiles :
        /\ ret[f].tag = "Some"
        /\ FunctionAssignments(TreeOfFile(f)) \cap Exported(TreeOfFile(f)) # {}

\* the function declarations of a tree
FunctionDeclarations(t) == {n \in 1..Len(t) : t[n].kind = "function_declaration"}

DeclaredName(t, n) ==
    IF child_by_field_name(t, n, "name") # 0 THEN node_text(t, child_by_field_name(t, n, "name"))
    ELSE L_anon

\* the CFG of a function declaration
DeclaredCfg(t, n) == stored_cfg(t, body_or_self(t, n))

IsChildOf(t, n, p) == \E i \in 1..Len(t[p].kids) : t[p].kids[i] = n

\* the function declarations that are children of the root
TopLevel(t) == {n \in FunctionDeclarations(t) : IsChildOf(t, n, 1)}

\* the function declarations that are children of the body of a top-level
\* function declaration
NestedOnce(t) ==
    {n \in FunctionDeclarations(t) :
        \E g \in TopLevel(t) : child_by_field_name(t, g, "body") # 0
                               /\ IsChildOf(t, n, child_by_field_name(t, g, "body"))}

\* two function declarations with one name, the only ones with that name
Collisions(t) ==
    {p \in FunctionDeclarations(t) \X FunctionDeclarations(t) :
        /\ p[1] # p[2]
        /\ DeclaredName(t, p[1]) = DeclaredName(t, p[2])
        /\ \A n \in FunctionDeclarations(t) :
              DeclaredName(t, n) = DeclaredName(t, p[1]) => n \in {p[1], p[2]}}

Siblings(t, a, c) == \E p \in 1..Len(t) : IsChildOf(t, a, p) /\ IsChildOf(t, c, p)

\* C14 (as amended): when two function declarations of a file have the same
\* name, the map the worker returns holds one CFG under that name; for two
\* declarations that are children of the same node it is the CFG of the one
\* that stands later in the file, and for a declaration at top level and one
\* nested in the body of a top-level function it is the CFG of the nested
\* one, wherever the two stand in the file.
C14_CollisionPolicy ==
    \A f \in GenFiles :
        ret[f].tag = "Some" =>
            LET t == TreeOfFile(f)
            IN  \A p \in Collisions(t) :
                    /\ DeclaredName(t, p[1]) \in DOMAIN ret[f].cfgs
                    /\ (Siblings(t, p[1], p[2]) /\ t[p[1]].start < t[p[2]].start)
                           => ret[f].cfgs[DeclaredName(t, p[1])] = DeclaredCfg(t, p[2])
                    /\ (p[1] \in TopLevel(t) /\ p[2] \in NestedOnce(t))
                           => ret[f].cfgs[DeclaredName(t, p[1])] = DeclaredCfg(t, p[2])

\* C14 as stated: the CFG under the name is that of the declaration that
\* stands later in the file.
C14_Original ==
    \A f \in GenFiles :
        ret[f].tag = "Some" =>
            LET t == TreeOfFile(f)
            IN  \A p \in Collisions(t) :
                    /\ DeclaredName(t, p[1]) \in DOMAIN ret[f].cfgs
                    /\ t[p[1]].start < t[p[2]].start
                           => ret[f].cfgs[DeclaredName(t, p[1])] = DeclaredCfg(t, p[2])

\* src/dup.ts has been extracted: two sibling declarations of h with
\* different CFGs, and a top-level f defined after a nested f with another CFG
C14_Witness ==
    \E f \in GenFiles :
        /\ ret[f].tag = "Some"
        /\ \E p \in Collisions(TreeOfFile(f)) :
              /\ Siblings(TreeOfFile(f), p[1], p[2])
              /\ DeclaredCfg(TreeOfFile(f), p[1]) # DeclaredCfg(TreeOfFile(f), p[2])
        /\ \E p \in Collisions(TreeOfFile(f)) :
              /\ p[1] \in TopLevel(TreeOfFile(f)) /\ p[2] \in NestedOnce(TreeOfFile(f))
              /\ TreeOfFile(f)[p[2]].start < TreeOfFile(f)[p[1]].start
              /\ DeclaredCfg(TreeOfFile(f), p[1]) # DeclaredCfg(TreeOfFile(f), p[2])

(* ------------------------ shape of the built CFG --------------------- *)

\* the index of the node appended last: 0 while only Entry and Exit exist
MostRecent(nodes) == IF Len(nodes) = 2 THEN 0 ELSE Len(nodes) - 1

\* the node appended just before node k
AppendedBefore(k) == IF k = 2 THEN 0 ELSE k - 1

IsSelfLoop(e) == e[1] = e[2]

\* the entries of the edge list a loop statement adds besides the edge from
\* last: its self-loop and, right after it, its edge to Exit. The closing
\* edge is the last entry; after dedupe_cfg_edges it is the loop's own edge
\* to Exit when the loop is the node appended last.
IsLoopEntry(es, p) ==
    p < Len(es) /\ (IsSelfLoop(es[p]) \/ (p > 1 /\ IsSelfLoop(es[p - 1])))

RECURSIVE chain_from(_, _)
chain_from(es, p) ==
    IF p > Len(es) THEN <<>>
    ELSE (IF IsLoopEntry(es, p) THEN <<>> ELSE <<es[p]>>) \o chain_from(es, p + 1)

\* Entry -> 2 -> 3 -> ... -> n - 1 -> Exit for n nodes
ExpectedChain(n) ==
    IF n = 2 THEN << <<0, 1>> >>
    ELSE [i \in 1..(n - 1) |-> IF i = 1 THEN <<0, 2>>
                               ELSE IF i = n - 1 THEN <<n - 1, 1>>
                               ELSE <<i, i + 1>>]

Successors(c, k) == {c.edges[p][2] : p \in {q \in 1..Len(c.edges) : c.edges[q][1] = k}}

IfNodes(c) == {k \in 2..(Len(c.nodes) - 1) : starts_with(c.nodes[k + 1], L_If)}

CfgShape(c) ==
    /\ \A k \in 2..(Len(c.nodes) - 1) :
          /\ Cardinality({p \in 1..Len(c.edges) : c.edges[p][2] = k /\ c.edges[p][1] # k}) = 1
          /\ \E p \in 1..Len(c.edges) : c.edges[p] = <<AppendedBefore(k), k>>
    /\ Len(c.edges) >= 1
    /\ c.edges[Len(c.edges)] = <<MostRecent(c.nodes), 1>>
    /\ chain_from(c.edges, 1) = ExpectedChain(Len(c.nodes))
    /\ \A k \in IfNodes(c) : Cardinality(Successors(c, k)) <= 1

\* C15: while build_structured_cfg runs, last is the index of the node
\* appended last (0 before any append); in the CFG it returns, and in the CFG
\* stored after dedupe_cfg_edges, every node of index k >= 2 has exactly one
\* incoming edge from another node, from the node appended just before it,
\* the last edge goes from the node appended last to Exit, the edges other
\* than the loops' self-loops and edges to Exit are the chain
\* Entry -> 2 -> ... -> Exit, no If node has two distinct successors, and
\* there is at least one edge.
C15_LastAndChain ==
    /\ b.last = MostRecent(b.nodes)
    /\ pc \in {"built", "deduped", "stored"} => CfgShape(cfg)
    /\ pc = "stored" => CfgShape(result[NameOf(input)])

\* a CFG has been built with an If node that is not the last one and a loop
C15_Witness ==
    /\ pc = "built"
    /\ \E k \in IfNodes(cfg) : k < Len(cfg.nodes) - 1
    /\ \E p \in 1..Len(cfg.edges) : IsSelfLoop(cfg.edges[p])
    /\ Len(cfg.nodes) >= 5

\* a CFG whose last appended node is a loop has been stored
LoopLastStored ==
    /\ pc = "stored"
    /\ Len(cfg.nodes) >= 4
    /\ IsSelfLoop(cfg.edges[Len(cfg.edges) - 1])

(* ---------------------------- the index counts ----------------------- *)

\* the functions of a per-file map, one for each file and name
FunctionsOf(m) ==
    {p \in (DOMAIN m) \X UNION {DOMAIN m[g] : g \in DOMAIN m} : p[2] \in DOMAIN m[p[1]]}

IndexAgrees(fl, m) ==
    /\ fl.index.edges = Len(fl.edges)
    /\ fl.index.boundary_crossings = Cardinality({i \in 1..Len(fl.edges) : fl.edges[i].kind = "Net"})
    /\ fl.index.pii_edges = Cardinality({i \in 1..Len(fl.edges) : fl.edges[i].sensitive})
    /\ fl.index.functions = Cardinality(FunctionsOf(m))
    /\ m = EmptyMap => /\ fl.edges = <<>>
                       /\ fl.index = [functions |-> 0, edges |-> 0, boundary_crossings |-> 0, pii_edges |-> 0]

\* C16: in every SecurityFlow to_security_flow returns, index.edges is the
\* length of the edge list, index.boundary_crossings the number of listed
\* edges of kind Net, index.pii_edges the number of listed edges with
\* sensitive = TRUE and index.functions the number of functions of all the
\* files' maps together, whether their edges were listed or dropped; for an
\* empty per-file map the four are 0 and the edge list is empty.
C16_IndexCounts ==
    /\ fpc \in {"returned", "compared"} => IndexAgrees(flow1, all)
    /\ fpc = "compared" => IndexAgrees(flow2, all)

\* a flow has been returned for two files with the same function, the second
\* of which had every edge dropped, with a sensitive edge listed
C16_Witness ==
    /\ fpc = "returned"
    /\ Cardinality(DOMAIN all) = 2
    /\ flow1.index.functions = 2
    /\ Cardinality({flow1.edges[i].func : i \in 1..Len(flow1.edges)}) = 1
    /\ flow1.index.pii_edges >= 1

\* a flow with a Net edge has been returned
NetEdgeReturned == fpc = "returned" /\ flow1.index.boundary_crossings >= 1

\* a flow has been returned for the empty map
EmptyMapReturned == fpc = "returned" /\ all = EmptyMap
====
